---- MODULE Spec2Model ----
(***************************************************************************)
(* KrishiSahyog: the scoring models of ai_models.py (CropHealthAnalyzer,   *)
(* PestDetector, SoilAnalyzer), the loader of hyperspectral_processor.py   *)
(* and the upload handler and pipeline driver of app.py.                   *)
(*                                                                         *)
(* Numbers are fixed-point integers:                                       *)
(*   features and index values ......... hundredths  (0.89  -> 89)         *)
(*   metric scores, soil values, noise . tenths      (75.0  -> 750)        *)
(*   overall_score ..................... thousandths (78.0  -> 78000)      *)
(*   pest confidence ................... thousandths (0.95  -> 950)        *)
(* overall_score is a weight in hundredths times a metric in tenths, so it *)
(* is exact in thousandths.                                                *)
(*                                                                         *)
(* A call is modelled as: Init draws the function and its arguments        *)
(* (pc = "called"), the action of that function draws the values of the    *)
(* random generator and stores what the function returns in ret            *)
(* (pc = "returned").  prev holds the result of an earlier call with the   *)
(* same arguments where a function is called twice, and log the internal   *)
(* calls and reads a function made.  db is the committed content of the    *)
(* database (one uploaded image and its field), run the local variables of *)
(* the pipeline driver of app.py, files the content of the upload folder.  *)
(***************************************************************************)
EXTENDS Integers, Sequences, FiniteSets, TLC

VARIABLES pc, fn, args, ret, created, prev, log, db, run, files

vars == <<pc, fn, args, ret, created, prev, log, db, run, files>>

\* ret before the call has returned
NoValue == [none |-> TRUE]

\* init_database: the status of each sample field it creates.  No route of
\* app.py creates a field, so these are the fields an image can belong to.
init_database == {"Healthy", "Attention Needed", "Excellent"}

\* an uploaded image that waits for processing, and the status of its field
InitialDb(field_status) ==
    [ processing_status |-> "pending",
      error_message |-> "",
      processed_at |-> "none",
      field_status |-> field_status,
      health_analyses |-> <<>>,
      pest_detections |-> <<>>,
      soil_analyses |-> <<>> ]

(***************************************************************************)
(* Python built-ins                                                        *)
(***************************************************************************)
Min(a, b) == IF b < a THEN b ELSE a

Max(a, b) == IF b > a THEN b ELSE a

\* sum(s), by halves to keep the recursion shallow on a long spectrum
RECURSIVE SumSeq(_)
SumSeq(s) ==
    IF Len(s) = 0 THEN 0
    ELSE IF Len(s) = 1 THEN s[1]
    ELSE LET h == Len(s) \div 2
         IN  SumSeq(SubSeq(s, 1, h)) + SumSeq(SubSeq(s, h + 1, Len(s)))

\* python slice s[a:b] with 0 <= a, on a 1-based TLA+ sequence
Slice(s, a, b) ==
    LET lo == Min(a, Len(s))
        hi == Min(b, Len(s))
    IN  IF hi <= lo THEN <<>> ELSE SubSeq(s, lo + 1, hi)

SeqMax(s) == CHOOSE m \in {s[i] : i \in 1..Len(s)} : \A j \in 1..Len(s) : s[j] <= m

SeqMin(s) == CHOOSE m \in {s[i] : i \in 1..Len(s)} : \A j \in 1..Len(s) : s[j] >= m

(***************************************************************************)
(* numpy reductions over a flattened array of hundredths.  Divisions are   *)
(* integer divisions; the sampled arrays make them exact.                  *)
(***************************************************************************)
\* largest r with r*r <= v
ISqrt(v) == CHOOSE r \in 0..v : r * r <= v /\ (r + 1) * (r + 1) > v

RECURSIVE Insert(_, _)
Insert(x, s) ==
    IF s = <<>> THEN <<x>>
    ELSE IF x < Head(s) THEN <<x>> \o s
    ELSE <<Head(s)>> \o Insert(x, Tail(s))

RECURSIVE SortAsc(_)
SortAsc(s) == IF s = <<>> THEN <<>> ELSE Insert(Head(s), SortAsc(Tail(s)))

\* np.mean
Mean(a) == SumSeq(a) \div Len(a)

\* np.std (population standard deviation): sqrt(n*sum(x^2) - sum(x)^2) / n
Std(a) ==
    LET n == Len(a)
        sq == SumSeq([i \in 1..n |-> a[i] * a[i]])
    IN  ISqrt(n * sq - SumSeq(a) * SumSeq(a)) \div n

\* np.percentile(a, q), linear interpolation between the two nearest ranks
Percentile(a, q) ==
    LET s == SortAsc(a)
        n == Len(a)
        pos == q * (n - 1)
        lo == pos \div 100
        fr == pos % 100
        hi == Min(lo + 1, n - 1)
    IN  (100 * s[lo + 1] + fr * (s[hi + 1] - s[lo + 1])) \div 100

\* np.trapz with unit spacing: sum of (y[i] + y[i+1]) / 2
Trapz(y) ==
    IF Len(y) < 2 THEN 0
    ELSE (2 * SumSeq(y) - y[1] - y[Len(y)]) \div 2

\* np.polyfit(x, y, 1)[0] with x = 0..m-1: the set of its outcomes.  An empty
\* y raises TypeError.  A single point divides 0 by 0 when the design matrix
\* is scaled: the fit yields nan or fails in the least-squares solver,
\* depending on the LAPACK build.  Two points or more give the least-squares
\* slope, rounded to the nearest hundredth.
PolyfitSlope(y) ==
    LET m == Len(y)
        sx == SumSeq([i \in 1..m |-> i - 1])
        sxx == SumSeq([i \in 1..m |-> (i - 1) * (i - 1)])
        sxy == SumSeq([i \in 1..m |-> (i - 1) * y[i]])
        den == m * sxx - sx * sx
    IN  IF m = 0 THEN {"TypeError"}
        ELSE IF m = 1 THEN {"nan", "LinAlgError"}
        ELSE {(2 * (m * sxy - sx * SumSeq(y)) + den) \div (2 * den)}

(***************************************************************************)
(* CropHealthAnalyzer                                                      *)
(***************************************************************************)
\* self.health_thresholds, in thousandths (the scale of overall_score)
health_thresholds ==
    [excellent |-> 90000, healthy |-> 70000, attention_needed |-> 50000, poor |-> 30000]

\* the band window spectrum[red_edge_start:red_edge_end] as python slices it:
\* a negative start counts from the end and is cut at 0
RedEdgeWindow(n) ==
    LET red_edge_start == Min(60, n - 10)
        red_edge_end == Min(70, n)
        from == IF red_edge_start < 0 THEN Max(0, red_edge_start + n) ELSE red_edge_start
    IN  [start |-> red_edge_start, end |-> red_edge_end, from |-> from]

\* the set of outcomes of the call: a slope, nan, or the exception raised
_calculate_red_edge_slope(spectrum) ==
    LET win == RedEdgeWindow(Len(spectrum))
    IN  IF win.end > win.start
        THEN PolyfitSlope(Slice(spectrum, win.from, win.end))
        ELSE {0}

\* the six statistics of one array-valued index
IndexStats(a) ==
    << Mean(a), Std(a), Percentile(a, 25), Percentile(a, 75), SeqMin(a), SeqMax(a) >>

\* features.extend([...]) for every index that is an ndarray, in dict order
RECURSIVE IndexFeatures(_)
IndexFeatures(indices) ==
    IF indices = <<>> THEN <<>>
    ELSE (IF Head(indices).array THEN IndexStats(Head(indices).values) ELSE <<>>)
         \o IndexFeatures(Tail(indices))

\* the spectral curve features of a 3-D cube.  They are returned only for a
\* cube of more than 150 bands (ExtractRaises below), whose red-edge window
\* holds ten bands: the slope is then the single outcome of the call.
CurveFeatures(avg_spectrum) ==
    << CHOOSE red_edge_slope \in _calculate_red_edge_slope(avg_spectrum) : TRUE,
       Trapz(avg_spectrum),
       SeqMax(Slice(avg_spectrum, 0, 50)),
       SeqMax(Slice(avg_spectrum, 50, 100)),
       SeqMin(Slice(avg_spectrum, 100, 150)),
       SeqMax(Slice(avg_spectrum, 150, Len(avg_spectrum))) >>

\* what makes _extract_health_features raise, whatever the red-edge fit
\* does: a statistic or reduction over an empty array (IndexError or
\* ValueError), or data without a shape attribute (AttributeError).  A fit
\* that raises is given a window of at most one band, and a cube that short
\* has an empty region.
ExtractRaises(data, indices) ==
    \/ \E i \in 1..Len(indices) : indices[i].array /\ indices[i].values = <<>>
    \/ data.kind # "ndarray"
    \/ /\ Len(data.shape) = 3
       /\ \/ Slice(data.spectrum, 0, 50) = <<>>
          \/ Slice(data.spectrum, 50, 100) = <<>>
          \/ Slice(data.spectrum, 100, 150) = <<>>
          \/ Slice(data.spectrum, 150, Len(data.spectrum)) = <<>>

\* mutant: a scalar-valued index contributes its value
RECURSIVE ExtractHealthFeaturesScalarsCounted(_, _)
ExtractHealthFeaturesScalarsCounted(data, indices) ==
    IF indices = <<>>
    THEN (IF Len(data.shape) = 3 THEN CurveFeatures(data.spectrum) ELSE <<>>)
    ELSE (IF Head(indices).array THEN IndexStats(Head(indices).values) ELSE Head(indices).values)
         \o ExtractHealthFeaturesScalarsCounted(data, Tail(indices))

_extract_health_features(data, indices) ==
    IndexFeatures(indices)
    \o (IF Len(data.shape) = 3 THEN CurveFeatures(data.spectrum) ELSE <<>>)

\* noise is the value np.random.normal(0, 5) returned, in tenths
_analyze_chlorophyll_content(features, noise) ==
    IF Len(features) > 0
    THEN LET ndvi_mean == features[1]
             chlorophyll == Min(1000, Max(0, (ndvi_mean + 30) * 10))
         IN  Max(0, Min(1000, chlorophyll + noise))
    ELSE 750

\* mutant: the baseline is added after the last clamp
WaterStressUnclamped(features, noise) ==
    IF Len(features) > 6
    THEN Max(0, Min(1000, features[2] * 20)) + noise
    ELSE 200

\* noise is the value np.random.uniform(10, 30) returned, in tenths
_analyze_water_stress(features, noise) ==
    IF Len(features) > 6
    THEN LET ndvi_std == features[2]
             water_stress == Min(1000, ndvi_std * 20)
         IN  Max(0, Min(1000, water_stress + noise))
    ELSE 200

\* noise is the value np.random.uniform(5, 15) returned, in tenths
_analyze_nutrient_deficiency(features, noise) ==
    IF Len(features) > 0
    THEN LET chlorophyll_proxy == features[1]
             nutrient_deficiency == Max(0, (100 - chlorophyll_proxy) * 5)
         IN  Max(0, Min(1000, nutrient_deficiency + noise))
    ELSE 150

\* noise is the value np.random.uniform(5, 15) returned, in tenths
_analyze_disease_risk(features, noise) ==
    IF Len(features) > 1
    THEN LET spectral_variability == features[2]
             disease_risk == Min(500, spectral_variability * 10)
         IN  Max(0, Min(1000, disease_risk + noise))
    ELSE 120

\* mutant: the weights of water stress and nutrient deficiency exchanged
OverallScoreSwappedWeights(chlorophyll, water_stress, nutrient_deficiency, disease_risk) ==
    LET health_score == 40 * chlorophyll
                        + 20 * (1000 - water_stress)
                        + 25 * (1000 - nutrient_deficiency)
                        + 15 * (1000 - disease_risk)
    IN  Max(0, Min(100000, health_score))

\* weights 0.4 / 0.25 / 0.2 / 0.15 in hundredths, metrics in tenths, result
\* in thousandths
_calculate_overall_health_score(chlorophyll, water_stress, nutrient_deficiency, disease_risk) ==
    LET health_score == 40 * chlorophyll
                        + 25 * (1000 - water_stress)
                        + 20 * (1000 - nutrient_deficiency)
                        + 15 * (1000 - disease_risk)
    IN  Max(0, Min(100000, health_score))

\* mutant: strict comparisons against the thresholds
HealthStatusStrict(overall_score) ==
    IF overall_score > health_thresholds.excellent THEN "excellent"
    ELSE IF overall_score > health_thresholds.healthy THEN "healthy"
    ELSE IF overall_score > health_thresholds.attention_needed THEN "attention_needed"
    ELSE "poor"

_get_health_status(overall_score) ==
    IF overall_score >= health_thresholds.excellent THEN "excellent"
    ELSE IF overall_score >= health_thresholds.healthy THEN "healthy"
    ELSE IF overall_score >= health_thresholds.attention_needed THEN "attention_needed"
    ELSE "poor"

\* mutant: the nutrient rule is an elif of the water rule
HealthRecommendationsElif(chlorophyll, water_stress, nutrient_deficiency, disease_risk, overall_score) ==
    LET r1 == IF chlorophyll < 600
              THEN <<"Consider nitrogen fertilizer application to improve chlorophyll content">>
              ELSE <<>>
        r3 == r1 \o (IF water_stress > 400
                     THEN <<"Implement irrigation or water management strategies">>
                     ELSE IF nutrient_deficiency > 300
                     THEN <<"Conduct soil test and apply appropriate fertilizers">>
                     ELSE <<>>)
        r4 == r3 \o (IF disease_risk > 250
                     THEN <<"Monitor for disease symptoms and consider preventive treatments">>
                     ELSE <<>>)
    IN  r4 \o (IF overall_score < 50000
               THEN <<"Immediate attention required - conduct field inspection">>
               ELSE IF overall_score < 70000
               THEN <<"Monitor closely and consider management interventions">>
               ELSE <<"Continue current management practices">>)

_generate_health_recommendations(chlorophyll, water_stress, nutrient_deficiency, disease_risk, overall_score) ==
    LET r1 == IF chlorophyll < 600
              THEN <<"Consider nitrogen fertilizer application to improve chlorophyll content">>
              ELSE <<>>
        r2 == r1 \o (IF water_stress > 400
                     THEN <<"Implement irrigation or water management strategies">>
                     ELSE <<>>)
        r3 == r2 \o (IF nutrient_deficiency > 300
                     THEN <<"Conduct soil test and apply appropriate fertilizers">>
                     ELSE <<>>)
        r4 == r3 \o (IF disease_risk > 250
                     THEN <<"Monitor for disease symptoms and consider preventive treatments">>
                     ELSE <<>>)
        r5 == r4 \o (IF overall_score < 50000
                     THEN <<"Immediate attention required - conduct field inspection">>
                     ELSE IF overall_score < 70000
                     THEN <<"Monitor closely and consider management interventions">>
                     ELSE <<"Continue current management practices">>)
    IN  IF r5 = <<>>
        THEN r5 \o <<"Field appears healthy - maintain current practices">>
        ELSE r5

\* mutant: the except branch answers with the values the scoring functions
\* give for an empty feature vector
HealthDefaultFromEmptyFeatures ==
    [ chlorophyll_content |-> 750,
      water_stress |-> 200,
      nutrient_deficiency |-> 150,
      disease_risk |-> 120,
      overall_score |-> 80200,
      health_status |-> "healthy",
      recommendations |-> <<"Monitor field conditions", "Continue current management practices">> ]

\* the record of the except branch of CropHealthAnalyzer.analyze
HealthDefault ==
    [ chlorophyll_content |-> 750,
      water_stress |-> 250,
      nutrient_deficiency |-> 150,
      disease_risk |-> 120,
      overall_score |-> 78000,
      health_status |-> "healthy",
      recommendations |-> <<"Monitor field conditions", "Continue current management practices">> ]

\* CropHealthAnalyzer.analyze; nz holds the four values the random generator
\* returned (nz.c, nz.w, nz.n, nz.d).  The timestamp is left out.
HealthAnalyze(data, indices, nz) ==
    IF ExtractRaises(data, indices) THEN HealthDefault
    ELSE LET features == _extract_health_features(data, indices)
             chlorophyll_content == _analyze_chlorophyll_content(features, nz.c)
             water_stress == _analyze_water_stress(features, nz.w)
             nutrient_deficiency == _analyze_nutrient_deficiency(features, nz.n)
             disease_risk == _analyze_disease_risk(features, nz.d)
             overall_score == _calculate_overall_health_score(
                 chlorophyll_content, water_stress, nutrient_deficiency, disease_risk)
             recommendations == _generate_health_recommendations(
                 chlorophyll_content, water_stress, nutrient_deficiency, disease_risk,
                 overall_score)
         IN  [ chlorophyll_content |-> chlorophyll_content,
               water_stress |-> water_stress,
               nutrient_deficiency |-> nutrient_deficiency,
               disease_risk |-> disease_risk,
               overall_score |-> overall_score,
               health_status |-> _get_health_status(overall_score),
               recommendations |-> recommendations ]

(***************************************************************************)
(* Inputs of the health model                                              *)
(***************************************************************************)
\* the largest band count of a sampled cube
MaxBands == 160

\* the largest number of entries of a sampled index map
MaxIndices == 2

\* len(np.arange(400, 1000, 5))
CanonicalBands == 120

\* the values np.random.random() returns, one per band, in hundredths: [0, 1)
\* sampled where the spectrum is exact at the scale of the model (all bands
\* low, all bands at the middle, the two alternating from band to band)
VegetationDraws(bands) ==
    { [i \in 1..bands |-> 0], [i \in 1..bands |-> 50],
      [i \in 1..bands |-> IF i % 2 = 1 THEN 0 ELSE 50] }

\* _generate_vegetation_spectrum, band i at 400+5i nm; r[i] is the value
\* np.random.random() returned for band i
VegetationSpectrum(bands, r) ==
    [i \in 1..bands |->
        LET wl == 400 + 5 * (i - 1)
        IN  IF wl < 500 THEN 4 + (2 * r[i]) \div 100
            ELSE IF wl < 600 THEN 8 + (4 * r[i]) \div 100
            ELSE IF wl < 700 THEN 4 + (2 * r[i]) \div 100
            ELSE IF wl < 750 THEN 10 + (60 * (wl - 700)) \div 50
            ELSE 70 + (20 * r[i]) \div 100]

UniformSpectrum(bands) == [i \in 1..bands |-> 50]

BandCounts == {0, 1, 9, 50, 100, CanonicalBands, 150, 151, MaxBands}

\* a cube is known by its shape and its mean spectrum np.mean(data, axis=(0, 1))
Cube(height, width, spectrum) ==
    [kind |-> "ndarray", shape |-> <<height, width, Len(spectrum)>>, spectrum |-> spectrum]

\* a 2-D array, and the dict load_and_preprocess returns (it has no shape)
Image2D == [kind |-> "ndarray", shape |-> <<2, 2>>, spectrum |-> <<>>]

DictData == [kind |-> "dict", shape |-> <<>>, spectrum |-> <<>>]

Cubes ==
    UNION {{Cube(2, 3, VegetationSpectrum(b, r)) : r \in VegetationDraws(b)} : b \in BandCounts}
    \cup {Cube(1, 1, UniformSpectrum(b)) : b \in {1, 151}}

HealthData == Cubes \cup {Image2D, DictData}

\* flattened index arrays (hundredths) and a scalar-valued entry
IndexEntries ==
    { [array |-> TRUE, values |-> <<89, 89>>],
      [array |-> TRUE, values |-> <<60, 20>>],
      [array |-> TRUE, values |-> <<-100, 0>>],
      [array |-> TRUE, values |-> <<>>],
      [array |-> FALSE, values |-> <<45>>] }

IndexMaps == UNION {[1..k -> IndexEntries] : k \in 0..MaxIndices}

\* values of np.random.normal(0, 5): any real, sampled far beyond the clamp
NormalNoise == {-2000, -37, 0, 2000}

\* values of np.random.uniform(10, 30) and np.random.uniform(5, 15): [low, high)
Uniform10_30 == {100, 299}

Uniform5_15 == {50, 149}

HealthNoise == [c : NormalNoise, w : Uniform10_30, n : Uniform5_15, d : Uniform5_15]

\* arguments of the direct calls of the helpers
MetricSamples == {0, 1, 250, 251, 300, 301, 400, 401, 599, 600, 999, 1000}

RuleSamples == [c : {0, 599, 600, 1000}, w : {0, 400, 401, 1000}, n : {0, 300, 301, 1000},
                d : {0, 250, 251, 1000}, o : {0, 49999, 50000, 69999, 70000, 100000}]

ScoreSamples == {-1, 0, 29999, 30000, 49999, 50000, 69999, 70000, 89999, 90000, 100000, 100001}

HealthCalls ==
    [fn : {"CropHealthAnalyzer.analyze"}, data : HealthData, indices : IndexMaps]
    \cup [fn : {"_calculate_overall_health_score"},
          c : MetricSamples, w : MetricSamples, n : MetricSamples, d : MetricSamples]
    \cup [fn : {"_get_health_status"}, o : ScoreSamples]
    \cup {[fn |-> "_generate_health_recommendations", m |-> m] : m \in RuleSamples}

InitHealth ==
    /\ \E call \in HealthCalls : fn = call.fn /\ args = call
    /\ pc = "called"
    /\ ret = NoValue
    /\ created = <<>>
    /\ prev = NoValue
    /\ log = <<>>
    /\ db = NoValue
    /\ run = NoValue
    /\ files = {}

CallHealthAnalyze ==
    /\ fn = "CropHealthAnalyzer.analyze" /\ pc = "called"
    /\ \E nz \in HealthNoise : ret' = HealthAnalyze(args.data, args.indices, nz)
    /\ pc' = "returned"
    /\ UNCHANGED <<fn, args, created, prev, log, db, run, files>>

CallOverallScore ==
    /\ fn = "_calculate_overall_health_score" /\ pc = "called"
    /\ ret' = _calculate_overall_health_score(args.c, args.w, args.n, args.d)
    /\ pc' = "returned"
    /\ UNCHANGED <<fn, args, created, prev, log, db, run, files>>

CallHealthStatus ==
    /\ fn = "_get_health_status" /\ pc = "called"
    /\ ret' = _get_health_status(args.o)
    /\ pc' = "returned"
    /\ UNCHANGED <<fn, args, created, prev, log, db, run, files>>

CallHealthRecommendations ==
    /\ fn = "_generate_health_recommendations" /\ pc = "called"
    /\ ret' = _generate_health_recommendations(args.m.c, args.m.w, args.m.n, args.m.d, args.m.o)
    /\ pc' = "returned"
    /\ UNCHANGED <<fn, args, created, prev, log, db, run, files>>

NextHealth ==
    \/ CallHealthAnalyze
    \/ CallOverallScore
    \/ CallHealthStatus
    \/ CallHealthRecommendations

SpecHealth == InitHealth /\ [][NextHealth]_vars

(***************************************************************************)
(* SoilAnalyzer                                                            *)
(***************************************************************************)
\* _extract_soil_features raises on data without a shape attribute
\* (AttributeError) and on a 3-D array without bands, whose mean spectrum is
\* empty: np.max of it raises ValueError
SoilExtractRaises(data) ==
    \/ data.kind # "ndarray"
    \/ Len(data.shape) = 3 /\ data.spectrum = <<>>

_extract_soil_features(data) ==
    IF Len(data.shape) = 3
    THEN LET avg_spectrum == data.spectrum
         IN  << Mean(avg_spectrum), Std(avg_spectrum), SeqMax(avg_spectrum),
                SeqMin(avg_spectrum), Trapz(avg_spectrum) >>
    ELSE <<50, 10, 80, 10, 5000>>

\* each estimator: a base value plus the value np.random.normal returned
\* (noise, tenths), clamped; the features are not used
_estimate_ph_level(features, noise) == Max(40, Min(85, 65 + noise))

_estimate_organic_matter(features, noise) == Max(10, Min(80, 35 + noise))

_estimate_moisture_content(features, noise) == Max(0, Min(1000, 450 + noise))

_estimate_nitrogen_level(features, noise) == Max(0, Min(1000, 700 + noise))

_estimate_phosphorus_level(features, noise) == Max(0, Min(1000, 650 + noise))

_estimate_potassium_level(features, noise) == Max(0, Min(1000, 680 + noise))

\* the rules of _generate_soil_recommendations without its catch-all
SoilRules(ph, organic_matter, moisture, nitrogen, phosphorus, potassium, independent) ==
    LET r1 == IF ph < 60 THEN <<"Consider lime application to raise pH">>
              ELSE IF ph > 75 THEN <<"Consider sulfur application to lower pH">>
              ELSE <<>>
        r2 == r1 \o (IF organic_matter < 30
                     THEN <<"Increase organic matter with compost or cover crops">>
                     ELSE <<>>)
        r3 == r2 \o (IF moisture < 300
                     THEN <<"Implement irrigation to improve moisture levels">>
                     ELSE IF moisture > 800
                     THEN <<"Improve drainage to prevent waterlogging">>
                     ELSE <<>>)
        r4 == r3 \o (IF nitrogen < 500 THEN <<"Apply nitrogen fertilizer">> ELSE <<>>)
        r5 == r4 \o (IF phosphorus < 400 /\ (independent \/ nitrogen >= 500)
                     THEN <<"Apply phosphorus fertilizer">> ELSE <<>>)
    IN  r5 \o (IF potassium < 450 THEN <<"Apply potassium fertilizer">> ELSE <<>>)

\* mutant: no catch-all when no rule fires
SoilRecommendationsNoCatchAll(ph, organic_matter, moisture, nitrogen, phosphorus, potassium) ==
    SoilRules(ph, organic_matter, moisture, nitrogen, phosphorus, potassium, TRUE)

\* mutant: the phosphorus rule is an elif of the nitrogen rule
SoilRecommendationsElif(ph, organic_matter, moisture, nitrogen, phosphorus, potassium) ==
    LET r == SoilRules(ph, organic_matter, moisture, nitrogen, phosphorus, potassium, FALSE)
    IN  IF r = <<>> THEN <<"Soil conditions are within optimal ranges">> ELSE r

\* mutant: the catch-all is appended whatever the rules gave
SoilRecommendationsAlwaysCatchAll(ph, organic_matter, moisture, nitrogen, phosphorus, potassium) ==
    SoilRules(ph, organic_matter, moisture, nitrogen, phosphorus, potassium, TRUE)
    \o <<"Soil conditions are within optimal ranges">>

_generate_soil_recommendations(ph, organic_matter, moisture, nitrogen, phosphorus, potassium) ==
    LET r1 == IF ph < 60 THEN <<"Consider lime application to raise pH">>
              ELSE IF ph > 75 THEN <<"Consider sulfur application to lower pH">>
              ELSE <<>>
        r2 == r1 \o (IF organic_matter < 30
                     THEN <<"Increase organic matter with compost or cover crops">>
                     ELSE <<>>)
        r3 == r2 \o (IF moisture < 300
                     THEN <<"Implement irrigation to improve moisture levels">>
                     ELSE IF moisture > 800
                     THEN <<"Improve drainage to prevent waterlogging">>
                     ELSE <<>>)
        r4 == r3 \o (IF nitrogen < 500 THEN <<"Apply nitrogen fertilizer">> ELSE <<>>)
        r5 == r4 \o (IF phosphorus < 400 THEN <<"Apply phosphorus fertilizer">> ELSE <<>>)
        r6 == r5 \o (IF potassium < 450 THEN <<"Apply potassium fertilizer">> ELSE <<>>)
    IN  IF r6 = <<>>
        THEN r6 \o <<"Soil conditions are within optimal ranges">>
        ELSE r6

\* the record of the except branch of SoilAnalyzer.analyze
SoilDefault ==
    [ ph_level |-> 68,
      organic_matter |-> 42,
      moisture_content |-> 670,
      nitrogen_level |-> 750,
      phosphorus_level |-> 680,
      potassium_level |-> 720,
      recommendations |-> <<"Monitor soil conditions regularly">> ]

\* SoilAnalyzer.analyze; nz holds the six values np.random.normal returned
SoilAnalyze(data, nz) ==
    IF SoilExtractRaises(data) THEN SoilDefault
    ELSE LET soil_features == _extract_soil_features(data)
             ph_level == _estimate_ph_level(soil_features, nz.ph)
             organic_matter == _estimate_organic_matter(soil_features, nz.om)
             moisture_content == _estimate_moisture_content(soil_features, nz.mo)
             nitrogen_level == _estimate_nitrogen_level(soil_features, nz.n)
             phosphorus_level == _estimate_phosphorus_level(soil_features, nz.p)
             potassium_level == _estimate_potassium_level(soil_features, nz.k)
         IN  [ ph_level |-> ph_level,
               organic_matter |-> organic_matter,
               moisture_content |-> moisture_content,
               nitrogen_level |-> nitrogen_level,
               phosphorus_level |-> phosphorus_level,
               potassium_level |-> potassium_level,
               recommendations |-> _generate_soil_recommendations(
                   ph_level, organic_matter, moisture_content,
                   nitrogen_level, phosphorus_level, potassium_level) ]

(***************************************************************************)
(* Inputs of the soil model                                                *)
(***************************************************************************)
SoilData ==
    {Cube(2, 3, VegetationSpectrum(CanonicalBands, r)) : r \in VegetationDraws(CanonicalBands)}
    \cup {Cube(2, 3, <<>>), Image2D, DictData}

\* values of np.random.normal: any real, sampled beyond both clamps and
\* around the thresholds of the recommendation rules
SoilNoise ==
    [ ph : {-2000, -6, 0, 2000}, om : {-2000, -6, 0, 2000}, mo : {-2000, 0, 351, 2000},
      n : {-2000, -201, 0, 2000}, p : {-2000, -251, 0, 2000}, k : {-2000, -231, 0, 2000} ]

SoilRuleSamples ==
    [ ph : {40, 59, 60, 75, 76, 85}, om : {10, 29, 30}, mo : {0, 299, 300, 800, 801, 1000},
      n : {499, 500}, p : {399, 400}, k : {449, 450} ]

SoilCalls ==
    [fn : {"SoilAnalyzer.analyze"}, data : SoilData]
    \cup {[fn |-> "_generate_soil_recommendations", m |-> m] : m \in SoilRuleSamples}

InitSoil ==
    /\ \E call \in SoilCalls : fn = call.fn /\ args = call
    /\ pc = "called"
    /\ ret = NoValue
    /\ created = <<>>
    /\ prev = NoValue
    /\ log = <<>>
    /\ db = NoValue
    /\ run = NoValue
    /\ files = {}

CallSoilAnalyze ==
    /\ fn = "SoilAnalyzer.analyze" /\ pc = "called"
    /\ \E nz \in SoilNoise : ret' = SoilAnalyze(args.data, nz)
    /\ pc' = "returned"
    /\ UNCHANGED <<fn, args, created, prev, log, db, run, files>>

CallSoilRecommendations ==
    /\ fn = "_generate_soil_recommendations" /\ pc = "called"
    /\ ret' = _generate_soil_recommendations(
                  args.m.ph, args.m.om, args.m.mo, args.m.n, args.m.p, args.m.k)
    /\ pc' = "returned"
    /\ UNCHANGED <<fn, args, created, prev, log, db, run, files>>

NextSoil ==
    \/ CallSoilAnalyze
    \/ CallSoilRecommendations

SpecSoil == InitSoil /\ [][NextSoil]_vars

(***************************************************************************)
(* PestDetector                                                            *)
(***************************************************************************)
\* a python str is a sequence of one-character strings
LowerCase == << "a", "b", "c", "d", "e", "f", "g", "h", "i", "j", "k", "l", "m",
                "n", "o", "p", "q", "r", "s", "t", "u", "v", "w", "x", "y", "z" >>

UpperCase == << "A", "B", "C", "D", "E", "F", "G", "H", "I", "J", "K", "L", "M",
                "N", "O", "P", "Q", "R", "S", "T", "U", "V", "W", "X", "Y", "Z" >>

IsLetter(ch) == \E i \in 1..26 : ch = LowerCase[i] \/ ch = UpperCase[i]

ToUpper(ch) ==
    IF \E i \in 1..26 : ch = LowerCase[i]
    THEN UpperCase[CHOOSE i \in 1..26 : ch = LowerCase[i]]
    ELSE ch

ToLower(ch) ==
    IF \E i \in 1..26 : ch = UpperCase[i]
    THEN LowerCase[CHOOSE i \in 1..26 : ch = UpperCase[i]]
    ELSE ch

\* str.replace(old, new) for one-character old and new
StrReplace(str, old, new) == [i \in 1..Len(str) |-> IF str[i] = old THEN new ELSE str[i]]

\* str.title(): a letter that follows a non-letter is upper-cased, every
\* other letter is lower-cased
StrTitle(str) ==
    [i \in 1..Len(str) |->
        IF i = 1 \/ ~IsLetter(str[i - 1]) THEN ToUpper(str[i]) ELSE ToLower(str[i])]

\* the keys of self.pest_database, in dict order
pest_database ==
    << <<"a", "p", "h", "i", "d", "s">>,
       <<"c", "o", "r", "n", "_", "b", "o", "r", "e", "r">>,
       <<"l", "e", "a", "f", "_", "r", "u", "s", "t">>,
       <<"s", "p", "i", "d", "e", "r", "_", "m", "i", "t", "e", "s">> >>

severities == <<"Low", "Medium", "High">>

\* confidence_ranges, in thousandths
confidence_ranges ==
    [Low |-> <<600, 800>>, Medium |-> <<700, 900>>, High |-> <<800, 950>>]

\* the candidate lists of _create_pest_detection, by index into pest_database
recommendations ==
    << << "Monitor population levels",
          "Consider beneficial insects release",
          "Apply targeted insecticide if needed" >>,
       << "Immediate treatment recommended",
          "Apply approved insecticide",
          "Monitor neighboring plants" >>,
       << "Apply fungicide treatment",
          "Remove infected plant material",
          "Improve air circulation" >>,
       << "Increase humidity levels",
          "Apply miticide treatment",
          "Monitor for natural predators" >> >>

\* np.random.uniform(low, high) returns a value of [low, high): u in 0..999
\* is the position inside the interval, in thousandths of its width
Uniform(low, high, u) == low + ((high - low) * u) \div 1000

\* mutant: the confidence is drawn from the band of 'High' whatever the severity
CreatePestDetectionHighBand(kind, height, width, rnd) ==
    [ type |-> StrTitle(StrReplace(pest_database[kind], "_", " ")),
      confidence |-> Uniform(confidence_ranges.High[1], confidence_ranges.High[2],
                             rnd.confidence),
      severity |-> severities[rnd.severity],
      location_x |-> Uniform(0, 1000 * width, rnd.x),
      location_y |-> Uniform(0, 1000 * height, rnd.y),
      recommendation |-> recommendations[kind][rnd.recommendation] ]

\* _create_pest_detection; kind indexes pest_database, and rnd holds what the
\* random generator returned: the index of the severity, the positions of
\* the three uniform draws and the index of the recommendation.  Locations
\* are in thousandths of a pixel.
_create_pest_detection(kind, height, width, rnd) ==
    LET pest_type == pest_database[kind]
        severity == severities[rnd.severity]
        conf_range == confidence_ranges[severity]
        confidence == Uniform(conf_range[1], conf_range[2], rnd.confidence)
    IN  [ type |-> StrTitle(StrReplace(pest_type, "_", " ")),
          confidence |-> confidence,
          severity |-> severity,
          location_x |-> Uniform(0, 1000 * width, rnd.x),
          location_y |-> Uniform(0, 1000 * height, rnd.y),
          recommendation |-> recommendations[kind][rnd.recommendation] ]

\* the sort key {'High': 3, 'Medium': 2, 'Low': 1}[x['severity']]
SeverityKey(detection) ==
    IF detection.severity = "High" THEN 3
    ELSE IF detection.severity = "Medium" THEN 2
    ELSE 1

\* puts x behind every element whose key is at least its own
RECURSIVE InsertBySeverity(_, _)
InsertBySeverity(x, s) ==
    IF s = <<>> THEN <<x>>
    ELSE IF SeverityKey(Head(s)) >= SeverityKey(x)
    THEN <<Head(s)>> \o InsertBySeverity(x, Tail(s))
    ELSE <<x>> \o s

\* mutant: sorted ascending and then reversed, which turns around the
\* detections of equal severity
RECURSIVE InsertAscending(_, _)
InsertAscending(x, s) ==
    IF s = <<>> THEN <<x>>
    ELSE IF SeverityKey(Head(s)) <= SeverityKey(x)
    THEN <<Head(s)>> \o InsertAscending(x, Tail(s))
    ELSE <<x>> \o s

RECURSIVE SortAscending(_)
SortAscending(detections) ==
    IF detections = <<>> THEN <<>>
    ELSE InsertAscending(detections[Len(detections)],
                         SortAscending(SubSeq(detections, 1, Len(detections) - 1)))

SortAscendingReversed(detections) ==
    LET a == SortAscending(detections)
    IN  [i \in 1..Len(a) |-> a[Len(a) + 1 - i]]

\* detections.sort(key=..., reverse=True): descending by key, and stable
RECURSIVE SortBySeverity(_)
SortBySeverity(detections) ==
    IF detections = <<>> THEN <<>>
    ELSE InsertBySeverity(detections[Len(detections)],
                          SortBySeverity(SubSeq(detections, 1, Len(detections) - 1)))

\* hyperspectral_data.shape[:2] does not unpack into height, width
DetectRaises(data) == data.kind # "ndarray" \/ Len(data.shape) < 2

\* the list detect builds before it sorts; draws[i] is what the random
\* generator returned for detection i
DetectionsCreated(data, draws) ==
    [i \in 1..Len(draws) |->
        _create_pest_detection(draws[i].kind, data.shape[1], data.shape[2], draws[i])]

\* PestDetector.detect
Detect(data, draws) ==
    IF DetectRaises(data) THEN <<>>
    ELSE SortBySeverity(DetectionsCreated(data, draws))

(***************************************************************************)
(* Inputs of the pest model                                                *)
(***************************************************************************)
\* np.random.randint(0, 4): num_detections is one of 0 .. 3
RandintHigh == 4

\* a 1-D array: its shape has a single entry
Array1D == [kind |-> "ndarray", shape |-> <<5>>, spectrum |-> <<>>]

PestData == {Cube(2, 3, UniformSpectrum(1)), Image2D, Array1D, DictData}

\* sampled outcomes of the random generator for one detection, in three
\* families: every kind with every recommendation, every kind with every
\* severity, and every severity with both ends of each uniform draw
PestDraws ==
    { [kind : 1..Len(pest_database), severity : {1}, confidence : {500},
       x : {500}, y : {500}, recommendation : 1..3],
      [kind : 1..Len(pest_database), severity : 1..Len(severities), confidence : {500},
       x : {500}, y : {500}, recommendation : {2}],
      [kind : {3}, severity : 1..Len(severities), confidence : {0, 999},
       x : {0, 999}, y : {0, 999}, recommendation : {1}] }

PestCalls == [fn : {"PestDetector.detect"}, data : PestData]

InitPest ==
    /\ \E call \in PestCalls : fn = call.fn /\ args = call
    /\ pc = "called"
    /\ ret = NoValue
    /\ created = <<>>
    /\ prev = NoValue
    /\ log = <<>>
    /\ db = NoValue
    /\ run = NoValue
    /\ files = {}

\* created records the list as built, before the sort
CallDetect ==
    /\ fn = "PestDetector.detect" /\ pc = "called"
    /\ \E num_detections \in 0..(RandintHigh - 1) :
        \E D \in PestDraws :
            \E draws \in [1..num_detections -> D] :
                /\ ret' = Detect(args.data, draws)
                /\ created' = IF DetectRaises(args.data) THEN <<>>
                              ELSE DetectionsCreated(args.data, draws)
    /\ pc' = "returned"
    /\ UNCHANGED <<fn, args, prev, log, db, run, files>>

NextPest == CallDetect

SpecPest == InitPest /\ [][NextPest]_vars

(***************************************************************************)
(* The two analyzers together                                              *)
(***************************************************************************)
NextAnalyzers == NextHealth \/ NextSoil

SpecAnalyzers == (InitHealth \/ InitSoil) /\ [][NextAnalyzers]_vars

(***************************************************************************)
(* The three models together                                               *)
(***************************************************************************)
NextModels == NextHealth \/ NextSoil \/ NextPest

SpecModels == (InitHealth \/ InitSoil \/ InitPest) /\ [][NextModels]_vars

(***************************************************************************)
(* _calculate_red_edge_slope called on a mean spectrum.  log holds the     *)
(* slice it read: start and end as computed, from the first band Python    *)
(* reads for that slice.  ret holds the slope, "nan", or the name of the   *)
(* exception the call raised.                                              *)
(***************************************************************************)
MeanSpectra ==
    UNION {{VegetationSpectrum(b, r) : r \in VegetationDraws(b)} : b \in 0..MaxBands}
    \cup {UniformSpectrum(b) : b \in 0..MaxBands}

InitRedEdge ==
    /\ \E s \in MeanSpectra : fn = "_calculate_red_edge_slope" /\ args = [fn |-> fn, spectrum |-> s]
    /\ pc = "called"
    /\ ret = NoValue
    /\ created = <<>>
    /\ prev = NoValue
    /\ log = <<>>
    /\ db = NoValue
    /\ run = NoValue
    /\ files = {}

CallRedEdgeSlope ==
    /\ fn = "_calculate_red_edge_slope" /\ pc = "called"
    /\ \E r \in _calculate_red_edge_slope(args.spectrum) : ret' = r
    /\ log' = LET win == RedEdgeWindow(Len(args.spectrum))
              IN  IF win.end > win.start THEN <<win>> ELSE <<>>
    /\ pc' = "returned"
    /\ UNCHANGED <<fn, args, created, prev, db, run, files>>

SpecRedEdge == InitRedEdge /\ [][CallRedEdgeSlope]_vars

(***************************************************************************)
(* _extract_health_features called on its own: ret holds the exception it  *)
(* raised or the feature vector it returned.                               *)
(***************************************************************************)
InitFeatures ==
    /\ \E d \in HealthData, m \in IndexMaps :
        fn = "_extract_health_features" /\ args = [fn |-> fn, data |-> d, indices |-> m]
    /\ pc = "called"
    /\ ret = NoValue
    /\ created = <<>>
    /\ prev = NoValue
    /\ log = <<>>
    /\ db = NoValue
    /\ run = NoValue
    /\ files = {}

\* the statements in the order the function runs them: the statistics of the
\* index arrays, data.shape, the red-edge fit, then the regional values.  For
\* an empty index array np.percentile (line 96) runs before np.min (line 98):
\* it raises IndexError, or on a numpy that yields nan there np.min raises
\* ValueError.  The
\* fit is given win.end - win.from bands: none raises TypeError, one raises
\* LinAlgError or yields nan, and with nan the function goes on to the
\* regional values.
CallExtractHealthFeatures ==
    /\ fn = "_extract_health_features" /\ pc = "called"
    /\ LET win == RedEdgeWindow(Len(args.data.spectrum))
           fitted == Len(args.data.shape) = 3 /\ win.end > win.start
       IN  IF \E i \in 1..Len(args.indices) :
                    args.indices[i].array /\ args.indices[i].values = <<>>
           THEN \E raised \in {"IndexError", "ValueError"} : ret' = [raised |-> raised]
           ELSE IF args.data.kind # "ndarray"
           THEN ret' = [raised |-> "AttributeError"]
           ELSE IF fitted /\ win.end - win.from = 0
           THEN ret' = [raised |-> "TypeError"]
           ELSE \/ fitted /\ win.end - win.from = 1 /\ ret' = [raised |-> "LinAlgError"]
                \/ ret' = IF ExtractRaises(args.data, args.indices)
                          THEN [raised |-> "ValueError"]
                          ELSE [raised |-> "none",
                                features |-> _extract_health_features(args.data, args.indices)]
    /\ pc' = "returned"
    /\ UNCHANGED <<fn, args, created, prev, log, db, run, files>>

SpecFeatures == InitFeatures /\ [][CallExtractHealthFeatures]_vars

(***************************************************************************)
(* Two calls of a model on the same arguments: prev is what the first call *)
(* returned, ret what the second returned.  The random generator is not    *)
(* reseeded between the calls, so the two calls draw independently.        *)
(***************************************************************************)
\* the random values sampled for a pair of calls
TwiceSoilNoise == {nz \in SoilNoise : nz.om = 0 /\ nz.mo = 0 /\ nz.n = 0 /\ nz.p = 0}

TwicePestDraws == [kind : {1, 2}, severity : 1..Len(severities), confidence : {0, 999},
                   x : {0}, y : {999}, recommendation : {1, 3}]

TwiceCalls ==
    [fn : {"CropHealthAnalyzer.analyze"},
     data : {Cube(2, 3, VegetationSpectrum(151, r)) : r \in VegetationDraws(151)}
            \cup {Image2D, DictData},
     indices : {m \in IndexMaps : Len(m) <= 1}]
    \cup [fn : {"SoilAnalyzer.analyze"}, data : SoilData]
    \cup [fn : {"PestDetector.detect"}, data : PestData]

InitTwice ==
    /\ \E call \in TwiceCalls : fn = call.fn /\ args = call
    /\ pc = "called"
    /\ ret = NoValue
    /\ created = <<>>
    /\ prev = NoValue
    /\ log = <<>>
    /\ db = NoValue
    /\ run = NoValue
    /\ files = {}

CallHealthAnalyzeTwice ==
    /\ fn = "CropHealthAnalyzer.analyze" /\ pc = "called"
    /\ \E nz1, nz2 \in HealthNoise :
        /\ prev' = HealthAnalyze(args.data, args.indices, nz1)
        /\ ret' = HealthAnalyze(args.data, args.indices, nz2)
    /\ pc' = "repeated"
    /\ UNCHANGED <<fn, args, created, log, db, run, files>>

CallSoilAnalyzeTwice ==
    /\ fn = "SoilAnalyzer.analyze" /\ pc = "called"
    /\ \E nz1, nz2 \in TwiceSoilNoise :
        /\ prev' = SoilAnalyze(args.data, nz1)
        /\ ret' = SoilAnalyze(args.data, nz2)
    /\ pc' = "repeated"
    /\ UNCHANGED <<fn, args, created, log, db, run, files>>

CallDetectTwice ==
    /\ fn = "PestDetector.detect" /\ pc = "called"
    /\ \E n1, n2 \in 0..1 :
        \E draws1 \in [1..n1 -> TwicePestDraws], draws2 \in [1..n2 -> TwicePestDraws] :
            /\ prev' = Detect(args.data, draws1)
            /\ ret' = Detect(args.data, draws2)
    /\ pc' = "repeated"
    /\ UNCHANGED <<fn, args, created, log, db, run, files>>

NextTwice ==
    \/ CallHealthAnalyzeTwice
    \/ CallSoilAnalyzeTwice
    \/ CallDetectTwice

SpecTwice == InitTwice /\ [][NextTwice]_vars

(***************************************************************************)
(* HyperspectralProcessor.load_and_preprocess.  The three loaders and the  *)
(* preprocessor are called but the class does not define them: as the      *)
(* sources stand, looking the method up raises AttributeError.  Where they *)
(* are defined they follow the component design (a loader fails with       *)
(* IOError or FormatError or yields a raw cube; the preprocessor clamps    *)
(* reflectance to [0, 1]).  Both are outcomes of a call.  Reflectance is   *)
(* in hundredths.  log holds, in call order, every loader and preprocessor *)
(* call the function makes, with the exception the call raised.            *)
(***************************************************************************)
\* self.supported_formats
supported_formats ==
    << <<".", "r", "a", "w">>, <<".", "h", "d", "r">>, <<".", "i", "m", "g">>,
       <<".", "b", "i", "l">>, <<".", "b", "i", "p">>, <<".", "b", "s", "q">>,
       <<".", "t", "i", "f">>, <<".", "t", "i", "f", "f">> >>

\* str.rfind for a one-character needle, 1-based; 0 when absent
LastIndexOf(str, ch) ==
    IF \E i \in 1..Len(str) : str[i] = ch
    THEN CHOOSE i \in 1..Len(str) : str[i] = ch /\ \A j \in (i + 1)..Len(str) : str[j] # ch
    ELSE 0

\* os.path.splitext(path)[1]: from the last dot of the last path component,
\* unless that component has nothing but dots before it
Splitext(path) ==
    LET sepIndex == LastIndexOf(path, "/")
        dotIndex == LastIndexOf(path, ".")
    IN  IF dotIndex > sepIndex /\ \E i \in (sepIndex + 1)..(dotIndex - 1) : path[i] # "."
        THEN SubSeq(path, dotIndex, Len(path))
        ELSE <<>>

\* str.lower()
StrLower(str) == [i \in 1..Len(str) |-> ToLower(str[i])]

\* mutant: the extension is compared as written
DispatchCaseSensitive(file_path) ==
    LET file_ext == Splitext(file_path)
    IN  IF file_ext \in {<<".", "r", "a", "w">>, <<".", "h", "d", "r">>}
        THEN "_load_envi_format"
        ELSE IF file_ext \in {<<".", "t", "i", "f">>, <<".", "t", "i", "f", "f">>}
        THEN "_load_tiff_format"
        ELSE "_load_generic_format"

\* the loader load_and_preprocess calls for a path
Dispatch(file_path) ==
    LET file_ext == StrLower(Splitext(file_path))
    IN  IF file_ext \in {<<".", "r", "a", "w">>, <<".", "h", "d", "r">>}
        THEN "_load_envi_format"
        ELSE IF file_ext \in {<<".", "t", "i", "f">>, <<".", "t", "i", "f", "f">>}
        THEN "_load_tiff_format"
        ELSE "_load_generic_format"

\* reflectance clamped to [0, 1]
_preprocess_hyperspectral_data(data) ==
    [ corrected_reflectance |->
          [data.cube EXCEPT !.spectrum =
              [i \in 1..Len(data.cube.spectrum) |-> Min(100, Max(0, data.cube.spectrum[i]))]],
      wavelengths |-> data.wavelengths,
      metadata |-> data.metadata,
      processing_info |-> "radiometric correction" ]

\* loaded and processed are what the loader and the preprocessor do in this call
load_and_preprocess(file_path, loaded, processed) ==
    LET loader == Dispatch(file_path)
    IN  IF loaded.raised # "none"
        THEN [ log |-> << [call |-> loader, raised |-> loaded.raised] >>,
               ret |-> [raised |-> loaded.raised] ]
        ELSE IF processed.raised # "none"
        THEN [ log |-> << [call |-> loader, raised |-> "none"],
                          [call |-> "_preprocess_hyperspectral_data",
                           raised |-> processed.raised] >>,
               ret |-> [raised |-> processed.raised] ]
        ELSE LET processed_data == _preprocess_hyperspectral_data(loaded.data)
             IN  [ log |-> << [call |-> loader, raised |-> "none"],
                              [call |-> "_preprocess_hyperspectral_data",
                               raised |-> "none"] >>,
                   ret |-> [ raised |-> "none",
                             data |-> processed_data.corrected_reflectance,
                             wavelengths |-> processed_data.wavelengths,
                             metadata |-> processed_data.metadata,
                             shape |-> processed_data.corrected_reflectance.shape,
                             processing_info |-> processed_data.processing_info ] ]

\* file paths: every dispatch branch, upper and mixed case, extensions the
\* generic loader receives, and paths without an extension
FilePaths ==
    { <<"a", ".", "r", "a", "w">>, <<"a", ".", "R", "A", "W">>, <<"a", ".", "h", "d", "r">>,
      <<"a", ".", "t", "i", "f">>, <<"a", ".", "T", "i", "f", "f">>,
      <<"a", ".", "r", "a", "w", ".", "t", "i", "f">>,
      <<"a", ".", "b", "i", "l">>, <<"a", ".", "i", "m", "g">>,
      <<"a", ".", "x", "y", "z">>, <<"a", ".", "p", "n", "g">>,
      <<"a">>, <<".", "r", "a", "w">>, <<"d", ".", "r", "a", "w", "/", "a">> }

\* raw cubes a loader yields, with reflectance below 0 and above 1
RawData ==
    { [cube |-> Cube(1, 2, s), wavelengths |-> Len(s), metadata |-> "header"] :
        s \in { <<4, 70>>, <<-5, 70>>, <<4, 130>>, <<0, 0, 100>>, <<50>>, <<101, -1, 4, 70>> } }

\* AttributeError: the method is not defined
LoaderOutcomes ==
    [raised : {"AttributeError", "IOError", "FormatError"}]
    \cup [raised : {"none"}, data : RawData]

PreprocessOutcomes == [raised : {"none", "AttributeError", "ValueError"}]

InitLoader ==
    /\ \E p \in FilePaths : fn = "load_and_preprocess" /\ args = [fn |-> fn, file_path |-> p]
    /\ pc = "called"
    /\ ret = NoValue
    /\ created = <<>>
    /\ prev = NoValue
    /\ log = <<>>
    /\ db = NoValue
    /\ run = NoValue
    /\ files = {}

CallLoadAndPreprocess ==
    /\ fn = "load_and_preprocess" /\ pc = "called"
    /\ \E loaded \in LoaderOutcomes, processed \in PreprocessOutcomes :
        LET r == load_and_preprocess(args.file_path, loaded, processed)
        IN  ret' = r.ret /\ log' = r.log
    /\ pc' = "returned"
    /\ UNCHANGED <<fn, args, created, prev, db, run, files>>

SpecLoader == InitLoader /\ [][CallLoadAndPreprocess]_vars

(***************************************************************************)
(* process_hyperspectral_image_async of app.py, one run for one uploaded   *)
(* image.  The run is a thread of its own, so it is modelled step by step, *)
(* pc naming the statement it is at; what other requests can read is db.   *)
(* An exception at any step jumps to the except block ("except").          *)
(* calculate_spectral_indices is called but the class does not define it:  *)
(* the call raises AttributeError as the sources stand, and where it is    *)
(* defined it follows the data model, mapping every index to a 2-D array   *)
(* of the spatial shape of the cube or to a scalar.  The flush and the      *)
(* commit that store the results (lines 227 and 230) may fail in the       *)
(* database; the commits that only mark the image (lines 153 and 240) are  *)
(* taken to succeed.                                                       *)
(***************************************************************************)
\* index maps calculate_spectral_indices yields for a cube of 1 x 2 pixels
PipelineIndexMaps == {m \in IndexMaps : Len(m) <= 1}

\* json.dumps raises TypeError for an ndarray
JsonDumpsRaises(spectral_indices) ==
    \E i \in 1..Len(spectral_indices) : spectral_indices[i].array

\* json.dumps of a value it can serialize: the text, kept as the value it encodes
JsonDumps(value) == [json |-> value]

\* mutant: 'Excellent' from an overall score of 70
FieldStatusExcellentFrom70(health_results, pest_results) ==
    IF health_results.overall_score >= 70000 THEN "Excellent"
    ELSE IF health_results.overall_score >= 60000
    THEN IF \A i \in 1..Len(pest_results) : pest_results[i].severity # "High"
         THEN "Healthy"
         ELSE "Attention Needed"
    ELSE "Poor"

\* the status the run gives the field (lines 219-225)
FieldStatus(health_results, pest_results) ==
    IF health_results.overall_score >= 80000 THEN "Excellent"
    ELSE IF health_results.overall_score >= 60000
    THEN IF \A i \in 1..Len(pest_results) : pest_results[i].severity # "High"
         THEN "Healthy"
         ELSE "Attention Needed"
    ELSE "Poor"

HealthAnalysisRow(health_results, spectral_indices) ==
    [ chlorophyll_content |-> health_results.chlorophyll_content,
      water_stress |-> health_results.water_stress,
      nutrient_deficiency |-> health_results.nutrient_deficiency,
      disease_risk |-> health_results.disease_risk,
      overall_score |-> health_results.overall_score,
      spectral_indices |-> JsonDumps(spectral_indices),
      recommendations |-> JsonDumps(health_results.recommendations) ]

PestDetectionRow(pest) ==
    [ pest_type |-> pest.type,
      confidence |-> pest.confidence,
      severity |-> pest.severity,
      location_x |-> pest.location_x,
      location_y |-> pest.location_y,
      recommendation |-> pest.recommendation ]

SoilAnalysisRow(soil_results) ==
    [ ph_level |-> soil_results.ph_level,
      organic_matter |-> soil_results.organic_matter,
      moisture_content |-> soil_results.moisture_content,
      nitrogen_level |-> soil_results.nitrogen_level,
      phosphorus_level |-> soil_results.phosphorus_level,
      potassium_level |-> soil_results.potassium_level,
      recommendations |-> JsonDumps(soil_results.recommendations) ]

PipelinePaths == { <<"a", ".", "r", "a", "w">>, <<"a", ".", "x", "y", "z">> }

InitPipeline ==
    /\ \E p \in PipelinePaths, s \in init_database :
        /\ fn = "process_hyperspectral_image_async"
        /\ args = [fn |-> fn, file_path |-> p, field_status |-> s]
    /\ pc = "called"
    /\ ret = NoValue
    /\ created = <<>>
    /\ prev = NoValue
    /\ log = <<>>
    /\ db = InitialDb(args.field_status)
    /\ run = [ processed_data |-> NoValue, spectral_indices |-> <<>>,
               health_results |-> NoValue, pest_results |-> <<>>,
               soil_results |-> NoValue, error |-> "none", added |-> 0, assigned |-> FALSE,
               session |-> db, session_state |-> "active" ]
    /\ files = {}

\* mutant: the run starts without marking the image
StartProcessingUnmarked ==
    /\ fn = "process_hyperspectral_image_async" /\ pc = "called"
    /\ pc' = "load"
    /\ UNCHANGED <<fn, args, ret, created, prev, log, db, run, files>>

\* lines 151-153
StartProcessing ==
    /\ fn = "process_hyperspectral_image_async" /\ pc = "called"
    /\ LET session == [run.session EXCEPT !.processing_status = "processing"]
       IN  /\ run' = [run EXCEPT !.session = session]
           /\ db' = session
    /\ pc' = "load"
    /\ UNCHANGED <<fn, args, ret, created, prev, log, files>>

\* line 159
LoadAndPreprocess ==
    /\ fn = "process_hyperspectral_image_async" /\ pc = "load"
    /\ \E loaded \in LoaderOutcomes, processed \in PreprocessOutcomes :
        LET r == load_and_preprocess(args.file_path, loaded, processed)
        IN  /\ log' = r.log
            /\ IF r.ret.raised # "none"
               THEN /\ run' = [run EXCEPT !.error = r.ret.raised]
                    /\ pc' = "except"
               ELSE /\ run' = [run EXCEPT !.processed_data = r.ret]
                    /\ pc' = "indices"
    /\ UNCHANGED <<fn, args, ret, created, prev, db, files>>

\* line 162
CalculateSpectralIndices ==
    /\ fn = "process_hyperspectral_image_async" /\ pc = "indices"
    /\ \/ run' = [run EXCEPT !.error = "AttributeError"] /\ pc' = "except"
       \/ /\ \E m \in PipelineIndexMaps : run' = [run EXCEPT !.spectral_indices = m]
          /\ pc' = "health"
    /\ UNCHANGED <<fn, args, ret, created, prev, log, db, files>>

\* line 165: the analyzer is given processed_data, the dict
AnalyzeCropHealth ==
    /\ fn = "process_hyperspectral_image_async" /\ pc = "health"
    /\ \E nz \in HealthNoise :
        run' = [run EXCEPT !.health_results = HealthAnalyze(DictData, run.spectral_indices, nz)]
    /\ pc' = "pests"
    /\ UNCHANGED <<fn, args, ret, created, prev, log, db, files>>

\* mutant: the detector is given the array processed_data['data']
DetectPestsOnArray ==
    /\ fn = "process_hyperspectral_image_async" /\ pc = "pests"
    /\ \E n \in 0..1 : \E draws \in [1..n -> TwicePestDraws] :
        run' = [run EXCEPT !.pest_results = Detect(run.processed_data.data, draws)]
    /\ pc' = "soil"
    /\ UNCHANGED <<fn, args, ret, created, prev, log, db, files>>

\* line 168
DetectPests ==
    /\ fn = "process_hyperspectral_image_async" /\ pc = "pests"
    /\ \E n \in 0..1 : \E draws \in [1..n -> TwicePestDraws] :
        run' = [run EXCEPT !.pest_results = Detect(DictData, draws)]
    /\ pc' = "soil"
    /\ UNCHANGED <<fn, args, ret, created, prev, log, db, files>>

\* line 171
AnalyzeSoil ==
    /\ fn = "process_hyperspectral_image_async" /\ pc = "soil"
    /\ \E nz \in TwiceSoilNoise :
        run' = [run EXCEPT !.soil_results = SoilAnalyze(DictData, nz)]
    /\ pc' = "save"
    /\ UNCHANGED <<fn, args, ret, created, prev, log, db, files>>

\* what lines 174-217 leave in the session: the rows added, the image marked
SessionAfterSave(session, health_row, results) ==
    [session EXCEPT
        !.health_analyses = Append(@, health_row),
        !.pest_detections =
            @ \o [i \in 1..Len(results.pest_results) |-> PestDetectionRow(results.pest_results[i])],
        !.soil_analyses = Append(@, SoilAnalysisRow(results.soil_results)),
        !.processing_status = "completed",
        !.processed_at = "utcnow"]

\* mutant: the index map is serialized after the health row has been added
SaveResultsDumpsAfterAdd ==
    /\ fn = "process_hyperspectral_image_async" /\ pc = "save"
    /\ IF JsonDumpsRaises(run.spectral_indices)
       THEN /\ run' = [run EXCEPT
                        !.error = "TypeError",
                        !.added = 1,
                        !.session.health_analyses =
                            Append(@, HealthAnalysisRow(run.health_results, <<>>))]
            /\ pc' = "except"
       ELSE /\ run' = [run EXCEPT
                        !.added = 2 + Len(run.pest_results),
                        !.session = SessionAfterSave(run.session,
                            HealthAnalysisRow(run.health_results, run.spectral_indices), run)]
            /\ pc' = "field"
    /\ UNCHANGED <<fn, args, ret, created, prev, log, db, files>>

\* lines 174-225: json.dumps(spectral_indices) is evaluated before the first
\* row is added to the session.  run.session is the session's view of the
\* database, db what has been committed, run.added the number of
\* db.session.add calls the run has made, run.assigned whether field.status
\* has been assigned.
SaveResults ==
    /\ fn = "process_hyperspectral_image_async" /\ pc = "save"
    /\ IF JsonDumpsRaises(run.spectral_indices)
       THEN /\ run' = [run EXCEPT !.error = "TypeError"]
            /\ pc' = "except"
       ELSE /\ run' = [run EXCEPT
                        !.added = 2 + Len(run.pest_results),
                        !.session = SessionAfterSave(run.session,
                            HealthAnalysisRow(run.health_results, run.spectral_indices), run)]
            /\ pc' = "field"
    /\ UNCHANGED <<fn, args, ret, created, prev, log, db, files>>

\* line 227: Field.query.get flushes the session first.  The field exists,
\* since the image row references it (database_models.py:36).  When the
\* flush fails, SQLAlchemy rolls the transaction back, which discards the
\* added rows and the pending changes, and leaves the session inactive until
\* rollback() is called.
QueryField ==
    /\ fn = "process_hyperspectral_image_async" /\ pc = "field"
    /\ \/ pc' = "commit" /\ UNCHANGED run
       \/ /\ run' = [run EXCEPT !.error = "OperationalError", !.session = db,
                                 !.session_state = "inactive"]
          /\ pc' = "except"
    /\ UNCHANGED <<fn, args, ret, created, prev, log, db, files>>

\* lines 228-230: field.status is assigned and the session committed.  The
\* commit fails in its flush, which leaves the session inactive as above, or
\* at the COMMIT itself, which leaves the session's transaction prepared on
\* a dead connection.  Either way nothing of the transaction is stored and
\* the session is not usable until rollback() is called.
CommitResults ==
    /\ fn = "process_hyperspectral_image_async" /\ pc = "commit"
    /\ LET session == [run.session EXCEPT
                          !.field_status = FieldStatus(run.health_results, run.pest_results)]
       IN  \/ /\ run' = [run EXCEPT !.session = session, !.assigned = TRUE]
              /\ db' = session
              /\ pc' = "returned"
           \/ /\ \E state \in {"inactive", "commit failed"} :
                    run' = [run EXCEPT !.error = "OperationalError", !.session = db,
                                       !.assigned = TRUE, !.session_state = state]
              /\ pc' = "except"
              /\ UNCHANGED db
    /\ UNCHANGED <<fn, args, ret, created, prev, log, files>>

\* lines 233-240: the block calls no rollback().  On a usable session its
\* commit writes whatever the session holds.  On an inactive session
\* HyperspectralImage.query.get (line 237) raises PendingRollbackError
\* (InvalidRequestError before SQLAlchemy 1.4).  After a failed COMMIT the
\* commit of line 240 sends no UPDATE and raises, or with SQLAlchemy 1.3
\* passes empty.  In all of these the image stays as it was committed last;
\* run.error is then the exception that leaves the function.
HandleError ==
    /\ fn = "process_hyperspectral_image_async" /\ pc = "except"
    /\ IF run.session_state = "active"
       THEN LET session == [run.session EXCEPT !.processing_status = "failed",
                                               !.error_message = run.error]
            IN  /\ run' = [run EXCEPT !.session = session]
                /\ db' = session
                /\ pc' = "returned"
       ELSE /\ \/ \E e \in {"PendingRollbackError", "InvalidRequestError"} :
                    run' = [run EXCEPT !.error = e] /\ pc' = "raised"
               \/ run.session_state = "commit failed" /\ pc' = "returned" /\ UNCHANGED run
            /\ UNCHANGED db
    /\ UNCHANGED <<fn, args, ret, created, prev, log, files>>

NextPipeline ==
    \/ StartProcessing
    \/ LoadAndPreprocess
    \/ CalculateSpectralIndices
    \/ AnalyzeCropHealth
    \/ DetectPests
    \/ AnalyzeSoil
    \/ SaveResults
    \/ QueryField
    \/ CommitResults
    \/ HandleError

SpecPipeline == InitPipeline /\ [][NextPipeline]_vars

(***************************************************************************)
(* Two runs of process_hyperspectral_image_async for two images of one     *)
(* field, each in its own request thread with its own session.  pc and run *)
(* are functions of the image id.  A run's rows are inserted when the      *)
(* session flushes before Field.query.get (line 227) and get their         *)
(* created_at then; they and the field's status reach the database at the  *)
(* commit (line 230).  db.now is the clock.                                *)
(***************************************************************************)
Images == {1, 2}

TwoRunsDb(field_status) ==
    [ now |-> 0,
      processing_status |-> [i \in Images |-> "pending"],
      field_status |-> field_status,
      health_analyses |-> <<>> ]

InitTwoRuns ==
    /\ fn = "process_hyperspectral_image_async, two runs"
    /\ \E paths \in [Images -> PipelinePaths] : args = [fn |-> fn, file_path |-> paths]
    /\ pc = [i \in Images |-> "called"]
    /\ ret = NoValue
    /\ created = <<>>
    /\ prev = NoValue
    /\ log = <<>>
    /\ \E s \in init_database : db = TwoRunsDb(s)
    /\ run = [i \in Images |->
                [ spectral_indices |-> <<>>, health_results |-> NoValue,
                  pest_results |-> <<>>, soil_results |-> NoValue,
                  error |-> "none", health_row |-> NoValue ]]
    /\ files = {}

TwoRuns == fn = "process_hyperspectral_image_async, two runs"

\* lines 151-153
RunStart(i) ==
    /\ TwoRuns /\ pc[i] = "called"
    /\ db' = [db EXCEPT !.processing_status[i] = "processing"]
    /\ pc' = [pc EXCEPT ![i] = "load"]
    /\ UNCHANGED <<fn, args, ret, created, prev, log, run, files>>

\* line 159
RunLoad(i) ==
    /\ TwoRuns /\ pc[i] = "load"
    /\ \E loaded \in LoaderOutcomes, processed \in PreprocessOutcomes :
        LET r == load_and_preprocess(args.file_path[i], loaded, processed)
        IN  IF r.ret.raised # "none"
            THEN /\ run' = [run EXCEPT ![i].error = r.ret.raised]
                 /\ pc' = [pc EXCEPT ![i] = "except"]
            ELSE /\ pc' = [pc EXCEPT ![i] = "indices"]
                 /\ UNCHANGED run
    /\ UNCHANGED <<fn, args, ret, created, prev, log, db, files>>

\* line 162
RunIndices(i) ==
    /\ TwoRuns /\ pc[i] = "indices"
    /\ \E m \in PipelineIndexMaps : run' = [run EXCEPT ![i].spectral_indices = m]
    /\ pc' = [pc EXCEPT ![i] = "health"]
    /\ UNCHANGED <<fn, args, ret, created, prev, log, db, files>>

\* line 165
RunHealth(i) ==
    /\ TwoRuns /\ pc[i] = "health"
    /\ \E nz \in HealthNoise :
        run' = [run EXCEPT ![i].health_results =
                    HealthAnalyze(DictData, run[i].spectral_indices, nz)]
    /\ pc' = [pc EXCEPT ![i] = "pests"]
    /\ UNCHANGED <<fn, args, ret, created, prev, log, db, files>>

\* line 168
RunPests(i) ==
    /\ TwoRuns /\ pc[i] = "pests"
    /\ \E n \in 0..1 : \E draws \in [1..n -> TwicePestDraws] :
        run' = [run EXCEPT ![i].pest_results = Detect(DictData, draws)]
    /\ pc' = [pc EXCEPT ![i] = "soil"]
    /\ UNCHANGED <<fn, args, ret, created, prev, log, db, files>>

\* line 171
RunSoil(i) ==
    /\ TwoRuns /\ pc[i] = "soil"
    /\ \E nz \in TwiceSoilNoise :
        run' = [run EXCEPT ![i].soil_results = SoilAnalyze(DictData, nz)]
    /\ pc' = [pc EXCEPT ![i] = "save"]
    /\ UNCHANGED <<fn, args, ret, created, prev, log, db, files>>

\* lines 174-228: the rows are built and added, the flush before
\* Field.query.get inserts them with created_at = utcnow()
RunAddAndFlush(i) ==
    /\ TwoRuns /\ pc[i] = "save"
    /\ IF JsonDumpsRaises(run[i].spectral_indices)
       THEN /\ run' = [run EXCEPT ![i].error = "TypeError"]
            /\ pc' = [pc EXCEPT ![i] = "except"]
            /\ UNCHANGED db
       ELSE /\ run' = [run EXCEPT ![i].health_row =
                        [ image_id |-> i,
                          overall_score |-> run[i].health_results.overall_score,
                          created_at |-> db.now + 1 ]]
            /\ db' = [db EXCEPT !.now = @ + 1]
            /\ pc' = [pc EXCEPT ![i] = "commit"]
    /\ UNCHANGED <<fn, args, ret, created, prev, log, files>>

\* mutant: the commit leaves the field's status as it was
RunCommitKeepsStatus(i) ==
    /\ TwoRuns /\ pc[i] = "commit"
    /\ db' = [db EXCEPT !.health_analyses = Append(@, run[i].health_row),
                        !.processing_status[i] = "completed"]
    /\ pc' = [pc EXCEPT ![i] = "returned"]
    /\ UNCHANGED <<fn, args, ret, created, prev, log, run, files>>

\* lines 228-230: after the commit the field has the status this run
\* computed (an UPDATE is sent when it differs from the one the run loaded)
RunCommit(i) ==
    /\ TwoRuns /\ pc[i] = "commit"
    /\ db' = [db EXCEPT !.health_analyses = Append(@, run[i].health_row),
                        !.processing_status[i] = "completed",
                        !.field_status =
                            FieldStatus(run[i].health_results, run[i].pest_results)]
    /\ pc' = [pc EXCEPT ![i] = "returned"]
    /\ UNCHANGED <<fn, args, ret, created, prev, log, run, files>>

\* lines 233-240
RunHandleError(i) ==
    /\ TwoRuns /\ pc[i] = "except"
    /\ db' = [db EXCEPT !.processing_status[i] = "failed"]
    /\ pc' = [pc EXCEPT ![i] = "returned"]
    /\ UNCHANGED <<fn, args, ret, created, prev, log, run, files>>

\* get_fields: HealthAnalysis ... order_by(created_at.desc()).first()
LatestHealth(health_analyses) ==
    CHOOSE row \in {health_analyses[k] : k \in 1..Len(health_analyses)} :
        \A k \in 1..Len(health_analyses) : health_analyses[k].created_at <= row.created_at

NextTwoRuns ==
    \E i \in Images :
        \/ RunStart(i)
        \/ RunLoad(i)
        \/ RunIndices(i)
        \/ RunHealth(i)
        \/ RunPests(i)
        \/ RunSoil(i)
        \/ RunAddAndFlush(i)
        \/ RunCommit(i)
        \/ RunHandleError(i)

SpecTwoRuns == InitTwoRuns /\ [][NextTwoRuns]_vars

(***************************************************************************)
(* upload_hyperspectral_image of app.py: one POST request for one field.   *)
(* args holds the request (whether it has a 'file' part, the file name,    *)
(* whether the field exists).  An accepted upload saves the file, commits  *)
(* the image row and runs process_hyperspectral_image_async in the same    *)
(* request; the steps of that run are the actions of the pipeline above.   *)
(* File names are letters and dots.  The handler is modelled step by step, *)
(* pc naming the statement it is at: saving the file and committing the    *)
(* row are separate steps, and either may raise.                           *)
(***************************************************************************)
ALLOWED_EXTENSIONS ==
    { <<"r", "a", "w">>, <<"h", "d", "r">>, <<"i", "m", "g">>, <<"b", "i", "l">>,
      <<"b", "i", "p">>, <<"b", "s", "q">>, <<"t", "i", "f">>, <<"t", "i", "f", "f">> }

\* mutant: the extension is not lower-cased
AllowedFileCaseSensitive(filename) ==
    /\ LastIndexOf(filename, ".") > 0
    /\ SubSeq(filename, LastIndexOf(filename, ".") + 1, Len(filename)) \in ALLOWED_EXTENSIONS

\* '.' in filename and filename.rsplit('.', 1)[1].lower() in ALLOWED_EXTENSIONS
allowed_file(filename) ==
    /\ LastIndexOf(filename, ".") > 0
    /\ StrLower(SubSeq(filename, LastIndexOf(filename, ".") + 1, Len(filename)))
            \in ALLOWED_EXTENSIONS

\* werkzeug's secure_filename on a name of letters and dots: leading and
\* trailing dots are stripped
RECURSIVE secure_filename(_)
secure_filename(filename) ==
    IF filename = <<>> THEN <<>>
    ELSE IF Head(filename) = "." THEN secure_filename(Tail(filename))
    ELSE IF filename[Len(filename)] = "." THEN secure_filename(SubSeq(filename, 1, Len(filename) - 1))
    ELSE filename

\* os.path.join(UPLOAD_FOLDER, f"{uuid}_{filename}")
UploadPath(uuid, filename) ==
    <<"u", "p", "l", "o", "a", "d", "s", "/", uuid, "_">> \o secure_filename(filename)

\* the database before the upload: no image row yet.  field_status is the
\* status of the field the request names, "None" when there is no such field
EmptyDb(field_status) == [InitialDb(field_status) EXCEPT !.processing_status = "no image"]

FileNames ==
    { <<>>, <<"a", ".", "r", "a", "w">>, <<"a", ".", "R", "A", "W">>,
      <<"a", ".", "t", "i", "f", "f">>, <<"a", ".", "b", "i", "l">>,
      <<"a", ".", "t", "x", "t">>, <<"a", ".", "r", "a", "w", ".", "p", "y">>,
      <<"r", "a", "w">>, <<".", "h", "d", "r">>, <<"a", ".">> }

\* field is what Field.query.get(field_id) finds
Requests == [has_file : BOOLEAN, filename : FileNames, field : init_database \cup {"None"}]

InitUpload ==
    /\ \E r \in Requests :
        fn = "upload_hyperspectral_image" /\ args = [fn |-> fn, request |-> r]
    /\ pc = "called"
    /\ ret = NoValue
    /\ created = <<>>
    /\ prev = NoValue
    /\ log = <<>>
    /\ db = EmptyDb(args.request.field)
    /\ run = NoValue
    /\ files = {}

\* the request is answered with an error
Rejected(status, error) ==
    /\ ret' = [status |-> status, success |-> FALSE, error |-> error]
    /\ pc' = "returned"
    /\ UNCHANGED <<fn, created, prev, log, db, run>>

\* lines 98-117: the four checks, then the path of the file
UploadRequest ==
    /\ fn = "upload_hyperspectral_image" /\ pc = "called"
    /\ LET request == args.request
       IN  IF ~request.has_file THEN Rejected(400, "No file provided")
           ELSE IF request.filename = <<>> THEN Rejected(400, "No file selected")
           ELSE IF ~allowed_file(request.filename) THEN Rejected(400, "File type not allowed")
           ELSE IF request.field = "None" THEN Rejected(404, "Field not found")
           ELSE \E uuid \in {"1", "2"} :   \* values of uuid.uuid4(), one character each
                /\ args' = [fn |-> fn, request |-> request,
                            file_path |-> UploadPath(uuid, request.filename)]
                /\ pc' = "save file"
                /\ UNCHANGED <<fn, ret, created, prev, log, db, run, files>>
    /\ pc' = "returned" => UNCHANGED <<args, files>>

\* lines 119-120: os.makedirs and file.save.  A write that fails may have
\* created the file already; the except block (lines 143-145) answers 500.
UploadSaveFile ==
    /\ fn = "upload_hyperspectral_image" /\ pc = "save file"
    /\ \/ /\ files' = files \cup {args.file_path}
          /\ pc' = "create record"
          /\ UNCHANGED <<fn, ret, created, prev, log, db, run>>
       \/ /\ files' \in {files, files \cup {args.file_path}}
          /\ Rejected(500, "OSError")
    /\ UNCHANGED args

\* lines 123-137: the row is built (os.path.getsize), added and committed,
\* then process_hyperspectral_image_async is called.  When building or
\* committing raises, the except block answers 500: the file stays, and no
\* row exists.
UploadCreateRecord ==
    /\ fn = "upload_hyperspectral_image" /\ pc = "create record"
    /\ \/ /\ db' = InitialDb(args.request.field)
          /\ fn' = "process_hyperspectral_image_async"
          /\ args' = [fn |-> "process_hyperspectral_image_async",
                      file_path |-> args.file_path,
                      field_status |-> args.request.field, request |-> args.request]
          /\ run' = [ processed_data |-> NoValue, spectral_indices |-> <<>>,
                      health_results |-> NoValue, pest_results |-> <<>>,
                      soil_results |-> NoValue, error |-> "none", added |-> 0, assigned |-> FALSE,
                      session |-> db', session_state |-> "active" ]
          /\ pc' = "called"
          /\ UNCHANGED <<ret, created, prev, log, files>>
       \/ \E error \in {"OSError", "SQLAlchemyError"} :
            Rejected(500, error) /\ UNCHANGED <<args, files>>

\* lines 139-145: the run has returned and the request is answered, with 500
\* when the run raised
UploadRespond ==
    /\ fn = "process_hyperspectral_image_async" /\ pc \in {"returned", "raised"}
    /\ fn' = "upload_hyperspectral_image"
    /\ ret' = IF pc = "returned"
              THEN [status |-> 200, success |-> TRUE, error |-> ""]
              ELSE [status |-> 500, success |-> FALSE, error |-> run.error]
    /\ pc' = "responded"
    /\ UNCHANGED <<args, created, prev, log, db, run, files>>

NextUpload ==
    \/ UploadRequest
    \/ UploadSaveFile
    \/ UploadCreateRecord
    \/ UploadRespond
    \/ NextPipeline

SpecUpload == InitUpload /\ [][NextUpload]_vars

(***************************************************************************)
(* Properties                                                              *)
(***************************************************************************)
Returned(f) == pc = "returned" /\ fn = f

Contains(list, msg) == \E i \in 1..Len(list) : list[i] = msg

\* C1: for chlorophyll, water_stress, nutrient_deficiency and disease_risk in
\* [0,100], _calculate_overall_health_score returns
\* 0.4*chlorophyll + 0.25*(100 - water_stress) + 0.2*(100 - nutrient_deficiency)
\* + 0.15*(100 - disease_risk), clamped to [0,100].
C1_OverallScoreIsWeightedSum ==
    Returned("_calculate_overall_health_score")
    /\ (\A v \in {args.c, args.w, args.n, args.d} : v >= 0 /\ v <= 1000)
    => LET sum == 60000 + 40 * args.c - 25 * args.w - 20 * args.n - 15 * args.d
       IN  /\ sum < 0 => ret = 0
           /\ sum > 100000 => ret = 100000
           /\ (sum >= 0 /\ sum <= 100000) => ret = sum

C1_Witness ==
    /\ Returned("_calculate_overall_health_score")
    /\ args.c = 600 /\ args.w = 401 /\ args.n = 300 /\ args.d = 251
    /\ ret = 24000 + 14975 + 14000 + 11235

\* C2: _get_health_status is total and returns exactly one label: 'excellent'
\* iff score >= 90, 'healthy' iff 70 <= score < 90, 'attention_needed' iff
\* 50 <= score < 70, 'poor' iff score < 50.
C2_StatusThresholds ==
    Returned("_get_health_status")
    => /\ ret \in {"excellent", "healthy", "attention_needed", "poor"}
       /\ ret = "excellent" <=> args.o >= 90000
       /\ ret = "healthy" <=> (args.o >= 70000 /\ args.o < 90000)
       /\ ret = "attention_needed" <=> (args.o >= 50000 /\ args.o < 70000)
       /\ ret = "poor" <=> args.o < 50000

C2_Witness ==
    Returned("_get_health_status") /\ args.o = 70000 /\ ret = "healthy"

\* C3: every record of CropHealthAnalyzer.analyze and SoilAnalyzer.analyze, on
\* the computed and on the error-default path and for every noise value, has
\* its scores inside their domains: the health metrics and overall_score in
\* [0,100], ph_level in [4.0,8.5], organic_matter in [1,8], moisture and N/P/K
\* in [0,100].
C3_ScoresInDomain ==
    /\ Returned("CropHealthAnalyzer.analyze")
       => /\ \A v \in {ret.chlorophyll_content, ret.water_stress,
                       ret.nutrient_deficiency, ret.disease_risk} : v >= 0 /\ v <= 1000
          /\ ret.overall_score >= 0 /\ ret.overall_score <= 100000
    /\ Returned("SoilAnalyzer.analyze")
       => /\ ret.ph_level >= 40 /\ ret.ph_level <= 85
          /\ ret.organic_matter >= 10 /\ ret.organic_matter <= 80
          /\ \A v \in {ret.moisture_content, ret.nitrogen_level,
                       ret.phosphorus_level, ret.potassium_level} : v >= 0 /\ v <= 1000

\* a computed record whose water stress and chlorophyll both sit on a clamp
C3_Witness ==
    /\ Returned("CropHealthAnalyzer.analyze")
    /\ ~ExtractRaises(args.data, args.indices)
    /\ ret.water_stress = 1000
    /\ ret.chlorophyll_content = 0

\* C4: the recommendations of every record of CropHealthAnalyzer.analyze and
\* SoilAnalyzer.analyze are a non-empty list, on both paths.
C4_RecommendationsNonEmpty ==
    (Returned("CropHealthAnalyzer.analyze") \/ Returned("SoilAnalyzer.analyze"))
    => Len(ret.recommendations) >= 1

\* a computed soil record in which no rule fired
C4_Witness ==
    /\ Returned("SoilAnalyzer.analyze")
    /\ ~SoilExtractRaises(args.data)
    /\ ret.ph_level = 65 /\ ret.organic_matter = 35 /\ ret.moisture_content = 450
    /\ ret.nitrogen_level = 700 /\ ret.phosphorus_level = 650 /\ ret.potassium_level = 680
    /\ Len(ret.recommendations) = 1

\* C5: in _generate_health_recommendations, whenever none of the threshold
\* rules fires (chlorophyll >= 60, water_stress <= 40, nutrient_deficiency <= 30,
\* disease_risk <= 25, overall_score >= 70), the list contains the catch-all
\* 'Field appears healthy - maintain current practices'.
C5_CatchAllWhenNoRuleFires ==
    /\ Returned("_generate_health_recommendations")
    /\ args.m.c >= 600 /\ args.m.w <= 400 /\ args.m.n <= 300 /\ args.m.d <= 250
    /\ args.m.o >= 70000
    => Contains(ret, "Field appears healthy - maintain current practices")

\* C6: the health recommendations are cumulative and ordered: each of the
\* four metric rules (chlorophyll < 60, water_stress > 40,
\* nutrient_deficiency > 30, disease_risk > 25) contributes its message exactly
\* when its condition holds, independently of the others and in that order, and
\* exactly one of the three overall-score messages (overall < 50,
\* 50 <= overall < 70, overall >= 70) appears, after the metric messages.
HealthMessageRank(msg) ==
    CASE msg = "Consider nitrogen fertilizer application to improve chlorophyll content" -> 1
      [] msg = "Implement irrigation or water management strategies" -> 2
      [] msg = "Conduct soil test and apply appropriate fertilizers" -> 3
      [] msg = "Monitor for disease symptoms and consider preventive treatments" -> 4
      [] msg = "Immediate attention required - conduct field inspection" -> 5
      [] msg = "Monitor closely and consider management interventions" -> 5
      [] msg = "Continue current management practices" -> 5
      [] OTHER -> 0

C6_HealthRulesCumulativeOrdered ==
    Returned("_generate_health_recommendations")
    => LET m == args.m
       IN  /\ \A i \in 1..Len(ret) : HealthMessageRank(ret[i]) >= 1
           /\ \A i, j \in 1..Len(ret) :
                  i < j => HealthMessageRank(ret[i]) < HealthMessageRank(ret[j])
           /\ (\E i \in 1..Len(ret) : HealthMessageRank(ret[i]) = 1) <=> m.c < 600
           /\ (\E i \in 1..Len(ret) : HealthMessageRank(ret[i]) = 2) <=> m.w > 400
           /\ (\E i \in 1..Len(ret) : HealthMessageRank(ret[i]) = 3) <=> m.n > 300
           /\ (\E i \in 1..Len(ret) : HealthMessageRank(ret[i]) = 4) <=> m.d > 250
           /\ Len(ret) >= 1
           /\ ret[Len(ret)] =
                  (IF m.o < 50000
                   THEN "Immediate attention required - conduct field inspection"
                   ELSE IF m.o < 70000
                   THEN "Monitor closely and consider management interventions"
                   ELSE "Continue current management practices")

\* water and nutrient rules fire together, the other two do not
C6_Witness ==
    /\ Returned("_generate_health_recommendations")
    /\ args.m.c = 600 /\ args.m.w = 401 /\ args.m.n = 301 /\ args.m.d = 250
    /\ args.m.o = 69999
    /\ Len(ret) = 3

\* C7: in every list of _generate_soil_recommendations the lime and sulfur
\* messages never both appear, the irrigate and drain messages never both
\* appear, and the nitrogen, phosphorus and potassium fertilizer messages each
\* appear exactly when its own level is below its own threshold (50 / 40 / 45).
C7_SoilExclusivePairsIndependentNPK ==
    Returned("_generate_soil_recommendations")
    => /\ ~(/\ Contains(ret, "Consider lime application to raise pH")
            /\ Contains(ret, "Consider sulfur application to lower pH"))
       /\ ~(/\ Contains(ret, "Implement irrigation to improve moisture levels")
            /\ Contains(ret, "Improve drainage to prevent waterlogging"))
       /\ Contains(ret, "Apply nitrogen fertilizer") <=> args.m.n < 500
       /\ Contains(ret, "Apply phosphorus fertilizer") <=> args.m.p < 400
       /\ Contains(ret, "Apply potassium fertilizer") <=> args.m.k < 450

\* all three fertilizer rules fire next to one rule of each exclusive pair
C7_Witness ==
    /\ Returned("_generate_soil_recommendations")
    /\ args.m.ph = 76 /\ args.m.mo = 299
    /\ args.m.n = 499 /\ args.m.p = 399 /\ args.m.k = 449
    /\ Contains(ret, "Consider sulfur application to lower pH")
    /\ Contains(ret, "Implement irrigation to improve moisture levels")
    /\ Contains(ret, "Apply phosphorus fertilizer")

\* C8: _generate_soil_recommendations returns the catch-all 'Soil conditions
\* are within optimal ranges' if and only if no threshold rule fires
\* (6.0 <= pH <= 7.5, organic_matter >= 3.0, 30 <= moisture <= 80,
\* nitrogen >= 50, phosphorus >= 40, potassium >= 45), and then the catch-all
\* is the only element.
C8_SoilCatchAllIffNoRule ==
    Returned("_generate_soil_recommendations")
    => LET m == args.m
           quiet == /\ m.ph >= 60 /\ m.ph <= 75
                    /\ m.om >= 30
                    /\ m.mo >= 300 /\ m.mo <= 800
                    /\ m.n >= 500 /\ m.p >= 400 /\ m.k >= 450
       IN  /\ Contains(ret, "Soil conditions are within optimal ranges") <=> quiet
           /\ quiet => ret = <<"Soil conditions are within optimal ranges">>

C8_Witness ==
    /\ Returned("_generate_soil_recommendations")
    /\ args.m.ph = 75 /\ args.m.om = 30 /\ args.m.mo = 800
    /\ args.m.n = 500 /\ args.m.p = 400 /\ args.m.k = 450
    /\ ret = <<"Soil conditions are within optimal ranges">>

\* C9: every list of PestDetector.detect has 0 to 3 detections, and every
\* detection has a type that is the title-cased name of one of the four
\* catalog kinds, a severity in {Low, Medium, High}, a confidence inside the
\* band of its own severity (Low [0.6,0.8), Medium [0.7,0.9), High [0.8,0.95])
\* and hence in [0,1], and a recommendation from the list of its own kind.
KindCandidates(type) ==
    CASE type = <<"A", "p", "h", "i", "d", "s">> ->
            { "Monitor population levels", "Consider beneficial insects release",
              "Apply targeted insecticide if needed" }
      [] type = <<"C", "o", "r", "n", " ", "B", "o", "r", "e", "r">> ->
            { "Immediate treatment recommended", "Apply approved insecticide",
              "Monitor neighboring plants" }
      [] type = <<"L", "e", "a", "f", " ", "R", "u", "s", "t">> ->
            { "Apply fungicide treatment", "Remove infected plant material",
              "Improve air circulation" }
      [] type = <<"S", "p", "i", "d", "e", "r", " ", "M", "i", "t", "e", "s">> ->
            { "Increase humidity levels", "Apply miticide treatment",
              "Monitor for natural predators" }
      [] OTHER -> {}

C9_DetectionsWellFormed ==
    Returned("PestDetector.detect")
    => /\ Len(ret) >= 0 /\ Len(ret) <= 3
       /\ \A i \in 1..Len(ret) :
            LET det == ret[i]
            IN  /\ KindCandidates(det.type) # {}
                /\ det.recommendation \in KindCandidates(det.type)
                /\ det.severity \in {"Low", "Medium", "High"}
                /\ det.severity = "Low" => (det.confidence >= 600 /\ det.confidence < 800)
                /\ det.severity = "Medium" => (det.confidence >= 700 /\ det.confidence < 900)
                /\ det.severity = "High" => (det.confidence >= 800 /\ det.confidence <= 950)
                /\ det.confidence >= 0 /\ det.confidence <= 1000

\* three detections, among them a Low one at the bottom of its band
C9_Witness ==
    /\ Returned("PestDetector.detect")
    /\ Len(ret) = 3
    /\ ret[1].severity = "High"
    /\ ret[3].severity = "Low" /\ ret[3].confidence = 600
    /\ ret[3].type = <<"L", "e", "a", "f", " ", "R", "u", "s", "t">>

\* C10: the list of PestDetector.detect is ordered High, then Medium, then Low
\* (no detection is followed by one of strictly higher severity), and
\* detections of equal severity keep the order in which they were created.
SeverityRank(severity) ==
    CASE severity = "High" -> 3 [] severity = "Medium" -> 2 [] severity = "Low" -> 1

OfSeverity(list, severity) ==
    LET Is(det) == det.severity = severity
    IN  SelectSeq(list, Is)

C10_SortedBySeverityStable ==
    Returned("PestDetector.detect")
    => /\ \A i, j \in 1..Len(ret) :
            i < j => SeverityRank(ret[i].severity) >= SeverityRank(ret[j].severity)
       /\ Len(ret) = Len(created)
       /\ \A severity \in {"High", "Medium", "Low"} :
            OfSeverity(ret, severity) = OfSeverity(created, severity)

\* created as Low, High, Low with two different Low detections: the sort
\* moves the High one to the front and keeps the Low ones in their order
C10_Witness ==
    /\ Returned("PestDetector.detect")
    /\ Len(created) = 3
    /\ created[1].severity = "Low" /\ created[2].severity = "High"
    /\ created[3].severity = "Low"
    /\ created[1] # created[3]
    /\ ret = <<created[2], created[1], created[3]>>

\* C11: every detection of PestDetector.detect carries a normalized image
\* location: location_x and location_y both lie in [0,1], for every cube
\* height and width >= 1.
C11_LocationNormalized ==
    Returned("PestDetector.detect")
    => \A i \in 1..Len(ret) :
          /\ ret[i].location_x >= 0 /\ ret[i].location_x <= 1000
          /\ ret[i].location_y >= 0 /\ ret[i].location_y <= 1000

\* C12: CropHealthAnalyzer.analyze, SoilAnalyzer.analyze and
\* PestDetector.detect never propagate an exception: whenever an internal step
\* raises, health returns the fixed default record (75.0 / 25.0 / 15.0 / 12.0 /
\* 78.0 / 'healthy'), soil returns the fixed default record (6.8 / 4.2 / 67.0 /
\* 75.0 / 68.0 / 72.0) and pest detection returns the empty list.
C12_ErrorsGiveDefaults ==
    /\ (Returned("CropHealthAnalyzer.analyze") /\ ExtractRaises(args.data, args.indices))
       => /\ ret.chlorophyll_content = 750 /\ ret.water_stress = 250
          /\ ret.nutrient_deficiency = 150 /\ ret.disease_risk = 120
          /\ ret.overall_score = 78000 /\ ret.health_status = "healthy"
    /\ (Returned("SoilAnalyzer.analyze") /\ SoilExtractRaises(args.data))
       => /\ ret.ph_level = 68 /\ ret.organic_matter = 42 /\ ret.moisture_content = 670
          /\ ret.nitrogen_level = 750 /\ ret.phosphorus_level = 680
          /\ ret.potassium_level = 720
    /\ (Returned("PestDetector.detect") /\ DetectRaises(args.data))
       => ret = <<>>

\* a cube of the canonical 120 bands: np.max over avg_spectrum[150:] raises
C12_Witness ==
    /\ Returned("CropHealthAnalyzer.analyze")
    /\ args.data.kind = "ndarray" /\ args.data.shape = <<2, 3, 120>>
    /\ Len(args.indices) = 1 /\ args.indices[1].array
    /\ ret.overall_score = 78000 /\ ret.water_stress = 250

\* C13: when the feature vector has length 0 (no array-valued index and a
\* cube that is not 3-D), CropHealthAnalyzer.analyze returns without raising
\* its documented default record: the metric values, overall_score, status and
\* recommendations of the record returned on internal error
\* (75.0 / 25.0 / 15.0 / 12.0 / 78.0 / 'healthy').
C13_EmptyFeaturesGiveDefaultRecord ==
    /\ Returned("CropHealthAnalyzer.analyze")
    /\ ~ExtractRaises(args.data, args.indices)
    /\ Len(_extract_health_features(args.data, args.indices)) = 0
    => /\ ret.chlorophyll_content = 750 /\ ret.water_stress = 250
       /\ ret.nutrient_deficiency = 150 /\ ret.disease_risk = 120
       /\ ret.overall_score = 78000 /\ ret.health_status = "healthy"
       /\ ret.recommendations =
              <<"Monitor field conditions", "Continue current management practices">>

\* C14: each scoring model is a pure function of its input: two calls of
\* CropHealthAnalyzer.analyze (SoilAnalyzer.analyze, PestDetector.detect) on the
\* same cube and the same index map return the same metric scores, status,
\* detections and recommendations.
C14_SameInputSameResult ==
    pc = "repeated" => prev = ret


\* C15: a health analysis whose first feature is a mean NDVI of 0.89 with zero
\* NDVI spread has, whatever the noise terms, health_status 'excellent' and
\* chlorophyll_content > 80.
C15_UniformNdviIsExcellent ==
    /\ Returned("CropHealthAnalyzer.analyze")
    /\ ~ExtractRaises(args.data, args.indices)
    /\ Len(IndexFeatures(args.indices)) > 0
    /\ IndexFeatures(args.indices)[1] = 89
    /\ IndexFeatures(args.indices)[2] = 0
    => /\ ret.health_status = "excellent"
       /\ ret.chlorophyll_content > 800


Loaders == {"_load_envi_format", "_load_tiff_format", "_load_generic_format"}

\* the extension the dispatch is specified on
LowerExt(path) == StrLower(Splitext(path))

\* C16: load_and_preprocess dispatches on the lower-cased extension ('.raw',
\* '.hdr' to the ENVI loader, '.tif', '.tiff' to the TIFF loader, anything else
\* to the generic loader), calls exactly one loader, once, and hands an error
\* of the loader or the preprocessor to the caller: nothing is called after the
\* failing call and nothing but the error is returned.
C16_DispatchOnceAndPropagate ==
    Returned("load_and_preprocess")
    => /\ Len(log) >= 1
       /\ log[1].call =
            (IF LowerExt(args.file_path) \in {<<".", "r", "a", "w">>, <<".", "h", "d", "r">>}
             THEN "_load_envi_format"
             ELSE IF LowerExt(args.file_path)
                        \in {<<".", "t", "i", "f">>, <<".", "t", "i", "f", "f">>}
             THEN "_load_tiff_format"
             ELSE "_load_generic_format")
       /\ Cardinality({i \in 1..Len(log) : log[i].call \in Loaders}) = 1
       /\ \A i \in 1..Len(log) :
            log[i].raised # "none"
            => i = Len(log) /\ ret.raised = log[i].raised /\ DOMAIN ret = {"raised"}
       /\ (\A i \in 1..Len(log) : log[i].raised = "none")
            => /\ ret.raised = "none"
               /\ DOMAIN ret = {"raised", "data", "wavelengths", "metadata", "shape",
                                "processing_info"}

C16_Witness ==
    /\ Returned("load_and_preprocess")
    /\ args.file_path = <<"a", ".", "T", "i", "f", "f">>
    /\ Len(log) = 2
    /\ log[1].call = "_load_tiff_format"
    /\ log[2].raised = "ValueError"
    /\ ret.raised = "ValueError"

\* C17: a file whose extension is not one of supported_formats is rejected
\* before any decode is attempted: no loader is run for it (a loader the
\* class does not define cannot run).
C17_UnsupportedRejectedBeforeDecode ==
    /\ Returned("load_and_preprocess")
    /\ \A i \in 1..Len(supported_formats) : LowerExt(args.file_path) # supported_formats[i]
    => /\ \A i \in 1..Len(log) : log[i].call \in Loaders => log[i].raised = "AttributeError"
       /\ ret.raised # "none"


\* load_and_preprocess raised in this run
LoadRaised == \E i \in 1..Len(log) : log[i].raised # "none"

\* C18: only the loader can abort a run of process_hyperspectral_image_async: an
\* image ends with processing_status 'failed' only if load_and_preprocess
\* raised, and once loading has succeeded the run ends 'completed' with a
\* health, a soil and a pest result stored.
C18_OnlyLoaderAborts ==
    Returned("process_hyperspectral_image_async")
    => /\ db.processing_status = "failed" => LoadRaised
       /\ ~LoadRaised
            => /\ db.processing_status = "completed"
               /\ Len(db.health_analyses) = 1
               /\ Len(db.soil_analyses) = 1
               /\ Len(db.pest_detections) = Len(run.pest_results)


\* C19: for every 3-D cube whose band count B >= 1 differs from the canonical
\* grid (in particular every B < 120) the four regional values are taken from
\* non-empty band ranges, so feature extraction completes and analyze returns
\* a computed result, not the error-default record.
C19_RegionsFollowBandCount ==
    /\ Returned("CropHealthAnalyzer.analyze")
    /\ args.data.kind = "ndarray" /\ Len(args.data.shape) = 3
    /\ Len(args.data.spectrum) >= 1 /\ Len(args.data.spectrum) # CanonicalBands
    /\ \A i \in 1..Len(args.indices) : args.indices[i].values # <<>>
    => /\ ~ExtractRaises(args.data, args.indices)
       /\ ~Contains(ret.recommendations, "Monitor field conditions")


\* C20: for every mean spectrum of length B with 1 <= B < 120 the red-edge
\* window lies inside the spectrum (start >= 0, end <= B) and its position is
\* scaled in proportion to B (bands 60..70 of 120), within one band.
C20_RedEdgeWindowScaled ==
    /\ Returned("_calculate_red_edge_slope")
    /\ Len(args.spectrum) >= 1 /\ Len(args.spectrum) < CanonicalBands
    => /\ Len(log) = 1
       /\ log[1].start >= 0 /\ log[1].end <= Len(args.spectrum)
       /\ 60 * Len(args.spectrum) - CanonicalBands < CanonicalBands * log[1].start
       /\ CanonicalBands * log[1].start < 60 * Len(args.spectrum) + CanonicalBands
       /\ 70 * Len(args.spectrum) - CanonicalBands < CanonicalBands * log[1].end
       /\ CanonicalBands * log[1].end < 70 * Len(args.spectrum) + CanonicalBands


IsArrayEntry(entry) == entry.array

\* C21: the vector _extract_health_features returns for an index map with k
\* array-valued entries has, for each of them in map order, (mean, std, 25th
\* percentile, 75th percentile, min, max), followed for a 3-D cube by red-edge
\* slope, area under the curve and the four regional values: 6k + 6 entries
\* for a 3-D cube, 6k otherwise; scalar-valued entries contribute nothing.
C21_FeatureLayout ==
    (Returned("_extract_health_features") /\ ret.raised = "none")
    => LET arrays == SelectSeq(args.indices, IsArrayEntry)
           k == Len(arrays)
           f == ret.features
           s == args.data.spectrum
       IN  /\ Len(f) = 6 * k + (IF Len(args.data.shape) = 3 THEN 6 ELSE 0)
           /\ \A j \in 1..k :
                /\ f[6 * (j - 1) + 1] = Mean(arrays[j].values)
                /\ f[6 * (j - 1) + 2] = Std(arrays[j].values)
                /\ f[6 * (j - 1) + 3] = Percentile(arrays[j].values, 25)
                /\ f[6 * (j - 1) + 4] = Percentile(arrays[j].values, 75)
                /\ f[6 * (j - 1) + 5] = SeqMin(arrays[j].values)
                /\ f[6 * (j - 1) + 6] = SeqMax(arrays[j].values)
           /\ Len(args.data.shape) = 3
                => /\ f[6 * k + 1] \in _calculate_red_edge_slope(s)
                   /\ f[6 * k + 2] = Trapz(s)
                   /\ f[6 * k + 3] = SeqMax(Slice(s, 0, 50))
                   /\ f[6 * k + 4] = SeqMax(Slice(s, 50, 100))
                   /\ f[6 * k + 5] = SeqMin(Slice(s, 100, 150))
                   /\ f[6 * k + 6] = SeqMax(Slice(s, 150, Len(s)))

C21_Witness ==
    /\ Returned("_extract_health_features") /\ ret.raised = "none"
    /\ Len(args.data.shape) = 3
    /\ Len(args.indices) = 2
    /\ ~args.indices[1].array /\ args.indices[2].array
    /\ Len(ret.features) = 12


\* C22: whenever the feature vector has at least two entries, water_stress and
\* disease_risk are both derived from the NDVI spread at position 1 (spread
\* term plus a baseline drawn from [10, 30) resp. [5, 15)), neither is its
\* constant default; whenever it has at least one entry, chlorophyll_content
\* and nutrient_deficiency are derived from position 0.
C22_MetricsDerivedFromFeatures ==
    (Returned("CropHealthAnalyzer.analyze") /\ ~ExtractRaises(args.data, args.indices))
    => LET f == _extract_health_features(args.data, args.indices)
       IN  /\ Len(f) >= 2
                => /\ \E baseline \in 100..299 :
                        ret.water_stress = Max(0, Min(1000, Min(1000, f[2] * 20) + baseline))
                   /\ \E baseline \in 50..149 :
                        ret.disease_risk = Max(0, Min(1000, Min(500, f[2] * 10) + baseline))
           /\ Len(f) >= 1
                => /\ \E noise \in NormalNoise :
                        ret.chlorophyll_content =
                            Max(0, Min(1000, Min(1000, Max(0, (f[1] + 30) * 10)) + noise))
                   /\ \E baseline \in 50..149 :
                        ret.nutrient_deficiency =
                            Max(0, Min(1000, Max(0, (100 - f[1]) * 5) + baseline))


StatusStep(from, to) == db.processing_status = from /\ db'.processing_status = to

\* C23: processing_status follows pending -> processing -> (completed |
\* failed): the image is created 'pending', it becomes 'completed' or 'failed'
\* only from 'processing', 'completed' and 'failed' are never left, and an
\* image is 'completed' only if processed_at is set and exactly one
\* HealthAnalysis and one SoilAnalysis row exist for it.
C23_StatusLifecycle ==
    /\ db.processing_status = "pending"
    /\ [](db.processing_status = "completed"
            => /\ db.processed_at # "none"
               /\ Len(db.health_analyses) = 1
               /\ Len(db.soil_analyses) = 1)
    /\ [][ \/ db'.processing_status = db.processing_status
           \/ StatusStep("pending", "processing")
           \/ StatusStep("processing", "completed")
           \/ StatusStep("processing", "failed") ]_vars

C23_Witness ==
    /\ Returned("process_hyperspectral_image_async")
    /\ db.processing_status = "completed"
    /\ db.processed_at = "utcnow"
    /\ Len(db.health_analyses) = 1 /\ Len(db.soil_analyses) = 1


\* C24: result storage is all-or-nothing per run: if the run ends with the
\* image 'failed', no HealthAnalysis, PestDetection or SoilAnalysis row of the
\* image has been committed and the field's status is unchanged, wherever the
\* exception occurred.  The same holds for a run that ends, by returning or
\* by raising, with the image neither 'completed' nor 'failed': an exception
\* after a db.session.add or after field.status was assigned ends that way.
C24_FailedRunStoresNothing ==
    /\ (fn = "process_hyperspectral_image_async" /\ pc \in {"returned", "raised"}
            /\ db.processing_status # "completed")
        => /\ db.health_analyses = <<>>
           /\ db.pest_detections = <<>>
           /\ db.soil_analyses = <<>>
           /\ db.field_status = args.field_status
    /\ (fn = "process_hyperspectral_image_async" /\ pc \in {"returned", "raised"}
            /\ run.added > 0)
        => db.processing_status \in {"completed", "processing"}

\* a run whose commit raised after it had added its rows, marked the image
\* and assigned field.status: nothing of it is stored
C24_Witness ==
    /\ fn = "process_hyperspectral_image_async" /\ pc = "raised"
    /\ run.added = 2 /\ run.assigned
    /\ db.processing_status = "processing"
    /\ db.health_analyses = <<>> /\ db.soil_analyses = <<>>
    /\ args.field_status = "Attention Needed" /\ db.field_status = "Attention Needed"


\* C25: the three models are given the dict load_and_preprocess returned, not
\* its 'data' array, so every run that reaches the model calls gets the
\* error-default health record (overall_score 78.0, 'healthy'), the
\* error-default soil record and an empty pest list, whatever the image holds.
C25_PipelineResultsAreDefaults ==
    fn = "process_hyperspectral_image_async"
    => /\ pc \in {"pests", "soil", "save"}
            => /\ run.health_results.chlorophyll_content = 750
               /\ run.health_results.water_stress = 250
               /\ run.health_results.nutrient_deficiency = 150
               /\ run.health_results.disease_risk = 120
               /\ run.health_results.overall_score = 78000
               /\ run.health_results.health_status = "healthy"
               /\ run.health_results.recommendations =
                    <<"Monitor field conditions", "Continue current management practices">>
       /\ pc \in {"soil", "save"} => run.pest_results = <<>>
       /\ pc = "save"
            => /\ run.soil_results.ph_level = 68
               /\ run.soil_results.organic_matter = 42
               /\ run.soil_results.moisture_content = 670
               /\ run.soil_results.nitrogen_level = 750
               /\ run.soil_results.phosphorus_level = 680
               /\ run.soil_results.potassium_level = 720

C25_Witness ==
    /\ fn = "process_hyperspectral_image_async" /\ pc = "save"
    /\ run.processed_data.shape = <<1, 2, 3>>
    /\ Len(run.spectral_indices) = 1 /\ run.spectral_indices[1].array
    /\ run.health_results.overall_score = 78000
    /\ run.pest_results = <<>>
    /\ run.soil_results.ph_level = 68


\* C26: in every record CropHealthAnalyzer.analyze returns, the error-default
\* record included, overall_score is the clamped weighted sum of the record's
\* own four metrics and health_status is the threshold label of the record's
\* own overall_score.
C26_RecordConsistent ==
    Returned("CropHealthAnalyzer.analyze")
    => /\ ret.overall_score =
            _calculate_overall_health_score(ret.chlorophyll_content, ret.water_stress,
                                            ret.nutrient_deficiency, ret.disease_risk)
       /\ ret.health_status = _get_health_status(ret.overall_score)


IsSuffix(suffix, str) ==
    /\ Len(suffix) <= Len(str)
    /\ SubSeq(str, Len(str) - Len(suffix) + 1, Len(str)) = suffix

\* the file name ends in a dot and one of the allowed extensions, in any case
HasAllowedExtension(filename) ==
    \E ext \in ALLOWED_EXTENSIONS : IsSuffix(<<".">> \o ext, StrLower(filename))

\* C27: a rejected upload leaves no trace: when upload_hyperspectral_image
\* answers 400 (no file part, empty filename, disallowed extension) or 404
\* (unknown field), no file has been saved, no HyperspectralImage row exists
\* and no processing has started; the checks are applied in that order, and a
\* row exists only after all four have passed.
C27_RejectedUploadLeavesNoTrace ==
    /\ (Returned("upload_hyperspectral_image") /\ ret.status \in {400, 404})
        => /\ files = {} /\ db = EmptyDb(args.request.field) /\ run = NoValue /\ log = <<>>
           /\ ret.error =
                (IF ~args.request.has_file THEN "No file provided"
                 ELSE IF args.request.filename = <<>> THEN "No file selected"
                 ELSE IF ~HasAllowedExtension(args.request.filename)
                 THEN "File type not allowed"
                 ELSE "Field not found")
           /\ ret.status = (IF ret.error = "Field not found" THEN 404 ELSE 400)
    /\ (db # EmptyDb(args.request.field) \/ files # {})
        => /\ args.request.has_file
           /\ args.request.filename # <<>>
           /\ HasAllowedExtension(args.request.filename)
           /\ args.request.field # "None"

C27_Witness ==
    /\ Returned("upload_hyperspectral_image")
    /\ ret.status = 404
    /\ args.request.filename = <<"a", ".", "R", "A", "W">>
    /\ args.request.field = "None"
    /\ files = {} /\ db = EmptyDb("None")


HasHighSeverity(pest_results) ==
    \E i \in 1..Len(pest_results) : pest_results[i].severity = "High"

\* C28: after a completed run the field's status is 'Excellent' or 'Healthy'
\* only if the run produced no High-severity detection; it is 'Excellent' iff
\* overall_score >= 80, 'Poor' iff overall_score < 60, and for
\* 60 <= overall_score < 80 'Healthy' without and 'Attention Needed' with a
\* High-severity detection.
C28_FieldStatusRespectsPests ==
    (Returned("process_hyperspectral_image_async") /\ db.processing_status = "completed")
    => LET o == run.health_results.overall_score
           high == HasHighSeverity(run.pest_results)
       IN  /\ db.field_status \in {"Excellent", "Healthy"} => ~high
           /\ db.field_status = "Excellent" <=> o >= 80000
           /\ db.field_status = "Poor" <=> o < 60000
           /\ (o >= 60000 /\ o < 80000)
                => db.field_status = (IF high THEN "Attention Needed" ELSE "Healthy")

\* a completed run on a field seeded 'Excellent'
C28_Witness ==
    /\ Returned("process_hyperspectral_image_async")
    /\ db.processing_status = "completed"
    /\ args.field_status = "Excellent"
    /\ run.health_results.overall_score = 78000 /\ run.pest_results = <<>>
    /\ db.field_status = "Healthy"


\* C29: for every interleaving of two runs on images of the same field, once
\* both have finished the field's status is the one derived from the field's
\* most recently created HealthAnalysis row, the row get_fields reports as
\* health_score, and the detections of the run that created it.
C29_StatusFromLatestAnalysis ==
    (TwoRuns /\ (\A i \in Images : pc[i] = "returned") /\ db.health_analyses # <<>>)
    => LET latest == LatestHealth(db.health_analyses)
           o == latest.overall_score
           high == HasHighSeverity(run[latest.image_id].pest_results)
       IN  db.field_status =
                (IF o >= 80000 THEN "Excellent"
                 ELSE IF o < 60000 THEN "Poor"
                 ELSE IF high THEN "Attention Needed" ELSE "Healthy")

\* both runs completed, run 1 inserted its rows first and committed last
C29_Witness ==
    /\ TwoRuns /\ (\A i \in Images : pc[i] = "returned")
    /\ Len(db.health_analyses) = 2
    /\ db.health_analyses[1].image_id = 2 /\ db.health_analyses[2].image_id = 1
    /\ LatestHealth(db.health_analyses).image_id = 2
    /\ db.field_status = "Healthy"

====
